---- MODULE Spec2Model ----
(***************************************************************************)
(* The task execution core of the agent: the task status model             *)
(* (task_types.rs), the task store (task_store.rs), the completion         *)
(* evaluator (task_completion.rs) and the task engine (task_engine.rs).    *)
(*                                                                         *)
(* Two specifications share the variables below.                           *)
(*   Spec      one dispatcher thread drives one engine over one store:     *)
(*             create_task, run_task, run_existing_task and the store's    *)
(*             public write operations, one store call or one tool-call    *)
(*             loop invocation per step.                                   *)
(*   SpecEval  the pure function evaluate_completion applied to responses  *)
(*             and transcripts drawn from bounded sets.                    *)
(*                                                                         *)
(* Text.  A Rust string is modelled by the set of fragments it is made of; *)
(* Occurs(f) lists the marker substrings of the source's tables that occur *)
(* in fragment f, and AsciiLower(f) is the fragment f.to_ascii_lowercase() *)
(* yields.  TLA+ strings are ASCII, so a CJK marker is written in pinyin   *)
(* with the prefix "zh:"; the comments give the original.                  *)
(***************************************************************************)
EXTENDS Naturals, Sequences, FiniteSets, TLC

VARIABLES
    \* ---- the store: task-runs.db (task_store.rs:33-77)
    task_runs,        \* table task_runs: id -> row
    task_events,      \* table task_events, in rowid order
    task_artifacts,   \* table task_artifacts, in rowid order
    event_seq,        \* sqlite_sequence of task_events (AUTOINCREMENT)
    artifact_seq,     \* sqlite_sequence of task_artifacts (AUTOINCREMENT)
    clock,            \* what now_rfc3339() returns
    store_faults,     \* how many statements the database will still fail (rusqlite errors)
    callers,          \* the store calls in progress on other threads: caller -> its locals
    \* ---- the engine
    cfg,              \* TaskEngine.cfg
    \* ---- the call in progress (one dispatcher thread)
    pc,               \* the next store call or tool-call-loop invocation
    op,               \* "create_task", "run_task" or "run_existing_task"
    task_id,          \* task_id of the call
    history,          \* req.history
    round,            \* run_existing_task: round
    attempt,          \* execute_single_round_with_retry: attempt
    write_verified,   \* run_existing_task: write_verified
    consecutive_progress_only,
    response,         \* run_existing_task: response (Option)
    eval,             \* run_existing_task: eval (Option)
    err,              \* the error in flight (Option)
    ret,              \* what the last finished call returned
    \* ---- observation only: counts kept for the properties
    obs

storeVars == <<task_runs, task_events, task_artifacts, event_seq, artifact_seq>>
frameVars == <<pc, op, task_id, history, round, attempt, write_verified,
               consecutive_progress_only, response, eval, err, ret>>
vars == <<storeVars, clock, cfg, store_faults, callers, frameVars, obs>>

(***************************************************************************)
(* Bounds of the model.                                                    *)
(***************************************************************************)
MaxTasks == 2          \* task rows ever inserted
MaxCalls == 2          \* calls of the engine over a whole behaviour
MaxLoopCalls == 3      \* tool-call-loop invocations over a whole behaviour
MaxExchanges == 2      \* tool exchanges the tool-call loop adds to one history
MaxDirect == 1         \* direct store calls of the dispatcher
MaxRoundsCfg == 4      \* cfg.max_continuation_rounds ranges over 0..MaxRoundsCfg
MaxRetryCfg == 1       \* cfg.provider_retry_limit ranges over 0..MaxRetryCfg
MaxEvalHistory == 3    \* SpecEval: messages in a transcript
MaxStoreCalls == 4     \* SpecStore: calls of the store
MaxClock == 2          \* SpecStore: the clock ranges over 0..MaxClock
MaxQueries == 2        \* SpecTypes: calls of can_transition
MaxCallers == 2        \* SpecShared: threads calling the store at once
MaxSharedCalls == 4    \* SpecShared: calls of the store over a whole behaviour
MaxStoreFaults == 1    \* SpecFaults: statements the database fails

\* Option<T>
None == <<>>
Some(x) == <<x>>

(***************************************************************************)
(* Marker tables of the source, verbatim (CJK in pinyin):                  *)
(*   zh:yi xieru 已写入            zh:yijing xieru 已经写入                *)
(*   zh:xie dao le 写到了          zh:yi baocun 已保存                     *)
(*   zh:yijing baocun 已经保存     zh:baocun dao 保存到                    *)
(*   zh:baocun zai 保存在          zh:baocun yu 保存于                     *)
(*   zh:yi cunchu 已存储           zh:yijing cunchu 已经存储               *)
(*   zh:cunchu dao 存储到          zh:yi chuangjian 已创建                 *)
(*   zh:yijing chuangjian 已经创建 zh:chenggong chuangjian 成功创建        *)
(*   zh:yi chenggong chuangjian 已成功创建                                 *)
(*   zh:wenjian yi chenggong chuangjian 文件已成功创建                     *)
(*   zh:yi shengcheng 已生成       zh:yijing shengcheng 已经生成           *)
(*   zh:yi gengxin 已更新          zh:yijing gengxin 已经更新              *)
(*   zh:yi wancheng 已完成         zh:yijing wancheng 已经完成             *)
(*   zh:wancheng le 完成了         zh:wo zhengzai 我正在                   *)
(*   zh:rang wo jiancha 让我检查   zh:wo xian jiancha 我先检查             *)
(*   zh:rang wo xian chakan 让我先查看                                     *)
(*   zh:wo xuyao xian chakan 我需要先查看                                  *)
(*   zh:zhengzai shishi 正在实施                                           *)
(***************************************************************************)
chinese_claim_hints ==
    {"zh:yi xieru", "zh:yijing xieru", "zh:xie dao le", "zh:yi baocun",
     "zh:yijing baocun", "zh:baocun dao", "zh:baocun zai", "zh:baocun yu",
     "zh:yi cunchu", "zh:yijing cunchu", "zh:cunchu dao", "zh:yi chuangjian",
     "zh:yijing chuangjian", "zh:chenggong chuangjian", "zh:yi chenggong chuangjian",
     "zh:wenjian yi chenggong chuangjian", "zh:yi shengcheng", "zh:yijing shengcheng",
     "zh:yi gengxin", "zh:yijing gengxin"}

completion_verbs ==
    {"i wrote", "written to", "saved to", "saved as", "has been saved",
     "has been written", "created at", "created the file", "updated the file",
     "generated the report", "i updated", "i created", "i saved"}

file_indicators ==
    {"/", "\\", ".md", ".txt", ".rs", ".json", ".yaml", ".yml", ".toml", " file ",
     " path ", "docs/", "src/"}

completion_hints ==
    {"done", "completed", "finished", "successfully", "zh:yi wancheng",
     "zh:yijing wancheng", "zh:wancheng le", "zh:yi xieru", "zh:yijing xieru",
     "zh:yi baocun", "zh:yijing baocun", "zh:chenggong chuangjian", "zh:yi shengcheng",
     "zh:yijing shengcheng", "zh:yi gengxin", "zh:yijing gengxin"}

progress_hints ==
    {"i'm checking", "let me check", "i am checking", "i'm reviewing", "let me review",
     "i need to inspect", "working on", "currently implementing", "zh:wo zhengzai",
     "zh:rang wo jiancha", "zh:wo xian jiancha", "zh:rang wo xian chakan",
     "zh:wo xuyao xian chakan", "zh:zhengzai shishi"}

\* a variant of lines 176-183 that lacks the test for "denied"
failure_markers_without_denied ==
    {"failed", "error", "not allowed", "missing", "refusing"}

failure_markers ==
    {"failed", "error", "not allowed", "denied", "missing", "refusing"}

write_patterns ==
    {">>", " > ", "\n>", "tee ", "touch ", "mkdir ", "cp ", "mv ", "truncate ",
     "sed -i", "perl -i"}

read_patterns ==
    {"cat ", "less ", "more ", "head ", "tail ", "wc ", "stat ", "ls ", "find ", "rg ",
     "grep ", "sed -n", "nl "}

retryable_markers ==
    {"transport error", "error sending request for url", "connection reset",
     "connection refused", "timed out"}


(***************************************************************************)
(* The fragments texts are made of, and the markers occurring in each.     *)
(* CJK fragments:                                                          *)
(*   zh:hao de, wo yijing baocun dao a.md   好的，我已经保存到 a.md。      *)
(*   zh:baogao yi baocun dao report.md      报告已保存到 report.md。       *)
(*   zh:wo zhengzai jiancha dangqian wenjian zhuangtai                     *)
(*                                          我正在检查当前文件状态。       *)
(*   zh:renwu yi wancheng                   任务已完成。                   *)
(*   zh:jieguo xie dao le a.md              结果写到了 a.md                *)
(*   zh:qing jixu chuli zhege renwu         请继续处理这个任务             *)
(*   [Task Engine] zh:renwu shang wei wancheng   the nudge of              *)
(*                                          task_engine.rs:186             *)
(***************************************************************************)
Occurs(fragment) ==
    CASE fragment = "[Guardrail Notice] tool call blocked" ->
           {"[Guardrail Notice]"}
      [] fragment = "zh:hao de, wo yijing baocun dao a.md" ->
           {"zh:yijing baocun", "zh:baocun dao", ".md"}
      [] fragment = "zh:baogao yi baocun dao report.md" ->
           {"zh:yi baocun", "zh:baocun dao", ".md"}
      [] fragment = "zh:wo zhengzai jiancha dangqian wenjian zhuangtai" ->
           {"zh:wo zhengzai"}
      [] fragment = "zh:renwu yi wancheng" ->
           {"zh:yi wancheng"}
      [] fragment = "zh:jieguo xie dao le a.md" ->
           {"zh:xie dao le", ".md"}
      [] fragment = "done" ->
           {"done"}
      [] fragment = "I Saved the notes to docs/notes.md" ->
           {"/", ".md", "docs/"}
      [] fragment = "Written 3 bytes to report.md" ->
           {".md"}
      [] fragment = "Action blocked: denied" ->
           {"denied"}
      [] fragment = "echo abc > report.md" ->
           {".md", " > "}
      [] fragment = "cat report.md" ->
           {".md", "cat "}
      [] fragment = "cat a.md > b.md" ->
           {".md", " > ", "cat "}
      [] fragment = "CAT report.md" ->
           {".md"}
      [] fragment = "Custom native chat transport error: error sending request for url (https://x)" ->
           {"/", "error", "transport error", "error sending request for url"}
      [] fragment = "i saved the notes to docs/notes.md" ->
           {"i saved", "/", ".md", "docs/"}
      [] fragment = "i wrote a summary" ->
           {"i wrote"}
      [] fragment = "let me check the logs" ->
           {"let me check"}
      [] fragment = "working on it, almost done" ->
           {"done", "working on"}
      [] fragment = "written 3 bytes to report.md" ->
           {".md"}
      [] fragment = "action blocked: denied" ->
           {"denied"}
      [] fragment = "error: no such file" ->
           {"error"}
      [] fragment = "custom native chat transport error: error sending request for url (https://x)" ->
           {"/", "error", "transport error", "error sending request for url"}
      [] fragment = "connection reset by peer" ->
           {"connection reset"}
      [] fragment = "Command Failed with exit code 1" ->
           {}
      [] fragment = "command failed with exit code 1" ->
           {"failed"}
      [] fragment = "path not allowed" ->
           {"not allowed"}
      [] fragment = "Missing path parameter" ->
           {}
      [] fragment = "missing path parameter" ->
           {"missing"}
      [] fragment = "Refusing to write through symlink" ->
           {}
      [] fragment = "refusing to write through symlink" ->
           {"refusing"}
      [] OTHER -> {}

AsciiLower(fragment) ==
    CASE fragment = "[Guardrail Notice] tool call blocked" -> "[guardrail notice] tool call blocked"
      [] fragment = "I Saved the notes to docs/notes.md" -> "i saved the notes to docs/notes.md"
      [] fragment = "I wrote a summary" -> "i wrote a summary"
      [] fragment = "Let me check the logs" -> "let me check the logs"
      [] fragment = "Working on it, almost Done" -> "working on it, almost done"
      [] fragment = "[Task Engine] zh:renwu shang wei wancheng" -> "[task engine] zh:renwu shang wei wancheng"
      [] fragment = "[Tool results]" -> "[tool results]"
      [] fragment = "Written 3 bytes to report.md" -> "written 3 bytes to report.md"
      [] fragment = "Action blocked: denied" -> "action blocked: denied"
      [] fragment = "ERROR: No such file" -> "error: no such file"
      [] fragment = "CAT report.md" -> "cat report.md"
      [] fragment = "Custom native chat transport error: error sending request for url (https://x)" -> "custom native chat transport error: error sending request for url (https://x)"
      [] fragment = "Connection Reset by peer" -> "connection reset by peer"
      [] fragment = "Task stalled in repeated progress-only replies" -> "task stalled in repeated progress-only replies"
      [] fragment = "Command Failed with exit code 1" -> "command failed with exit code 1"
      [] fragment = "Missing path parameter" -> "missing path parameter"
      [] fragment = "Refusing to write through symlink" -> "refusing to write through symlink"
      [] OTHER -> fragment

\* str::contains(pat) for a marker pat of the tables
contains(text, pat) == \E f \in text : pat \in Occurs(f)

\* str::to_ascii_lowercase
to_ascii_lowercase(text) == {AsciiLower(f) : f \in text}

contains_any(text, pats) == \E pat \in pats : contains(text, pat)

(***************************************************************************)
(* task_completion.rs: the completion evaluator.                           *)
(*                                                                         *)
(* A ChatMessage is [role, content].  The content is the sequence of the   *)
(* segments the scanners tell apart: plain text, a tool-call envelope      *)
(* (tag is the index of its tag pair in TAG_PAIRS, closed says whether its *)
(* close tag is there, json_ok whether the body parses as JSON, name is    *)
(* the "name" field or NoName, text is arguments.command when has_command) *)
(* and a tool result <tool_result name="NAME">BODY</tool_result> (text is  *)
(* BODY, closed says whether </tool_result> is there).                     *)
(***************************************************************************)
NoName == "<no name>"

TextSeg(text) ==
    [kind |-> "text", tag |-> 0, closed |-> TRUE, json_ok |-> FALSE,
     name |-> NoName, has_command |-> FALSE, text |-> text]

CallSeg(tag, closed, json_ok, name, has_command, command) ==
    [kind |-> "call", tag |-> tag, closed |-> closed, json_ok |-> json_ok,
     name |-> name, has_command |-> has_command, text |-> command]

ResultSeg(name, closed, body) ==
    [kind |-> "result", tag |-> 0, closed |-> closed, json_ok |-> FALSE,
     name |-> name, has_command |-> FALSE, text |-> body]

ChatMessage(role, content) == [role |-> role, content |-> content]

\* CompletionDecision
Complete == [kind |-> "Complete", reason |-> ""]
Continue(reason) == [kind |-> "Continue", reason |-> reason]

\* the open tags of TAG_PAIRS, in the order the scanner tries them
TAG_PAIRS == <<"<tool_call>", "<toolcall>", "<tool-call>", "<invoke>">>

tool_result_output_likely_failure(output) ==
    LET lower == to_ascii_lowercase(output)
    IN  contains_any(lower, failure_markers)

classify_shell_command(command) ==
    LET lower == to_ascii_lowercase(command)
    IN  IF contains_any(lower, write_patterns) THEN "WriteLike"
        ELSE IF contains_any(lower, read_patterns) THEN "ReadLike"
        ELSE "Other"

looks_like_filesystem_write_claim(text) ==
    LET lower == to_ascii_lowercase(text)
    IN  IF contains_any(text, chinese_claim_hints) THEN TRUE
        ELSE /\ contains_any(lower, completion_verbs)
             /\ contains_any(lower, file_indicators)

looks_like_in_progress_update(text) ==
    LET lower == to_ascii_lowercase(text)
    IN  IF \E hint \in completion_hints :
               contains(lower, hint) \/ contains(text, hint)
        THEN FALSE
        ELSE \E hint \in progress_hints :
               contains(lower, hint) \/ contains(text, hint)

\* the shell kinds one tag pair contributes: the envelopes of that pair, in
\* textual order, that are closed, parse, and are named "shell"
shell_kinds_of_tag(content, tag) ==
    LET IsShellCall(s) ==
            /\ s.kind = "call"
            /\ s.tag = tag
            /\ s.closed
            /\ s.json_ok
            /\ s.name = "shell"
        calls == SelectSeq(content, IsShellCall)
    IN  [i \in 1..Len(calls) |->
            IF calls[i].has_command
            THEN classify_shell_command(calls[i].text)
            ELSE "Other"]

RECURSIVE push_shell_kinds_from(_, _, _)
push_shell_kinds_from(content, tag, out) ==
    IF tag > Len(TAG_PAIRS) THEN out
    ELSE push_shell_kinds_from(content, tag + 1,
                               out \o shell_kinds_of_tag(content, tag))

collect_shell_tool_kinds_from_assistant_calls(content, out) ==
    push_shell_kinds_from(content, 1, out)

\* a variant of line 167 that counts every successful read
is_post_write_read_any_read(kind, is_success, saw_successful_write) ==
    kind = "ReadLike" /\ is_success

\* line 167: a read counts only after a successful write
is_post_write_read(kind, is_success, saw_successful_write) ==
    kind = "ReadLike" /\ is_success /\ saw_successful_write

\* a variant of lines 164-166 in which the latest write decides
note_tool_result_latest_write(ev, tool_name, output) ==
    LET is_success == ~tool_result_output_likely_failure(output)
        pending == ev.shell_kinds
        kind == CASE tool_name = "file_write" -> "WriteLike"
                  [] tool_name = "file_read" -> "ReadLike"
                  [] tool_name = "shell" ->
                        IF pending # <<>> THEN Head(pending) ELSE "Other"
                  [] OTHER -> "Other"
        saw_write == IF kind = "WriteLike" THEN is_success ELSE ev.saw_successful_write
    IN  [shell_kinds |->
            IF tool_name = "shell" /\ pending # <<>> THEN Tail(pending) ELSE pending,
         saw_successful_write |-> saw_write,
         saw_post_write_read_after_success |->
            \/ ev.saw_post_write_read_after_success
            \/ is_post_write_read(kind, is_success, saw_write),
         classified |-> Append(ev.classified,
                               [kind |-> kind, is_success |-> is_success])]

\* lines 154-169: one iteration of the result loop, for the result NAME with
\* body OUTPUT.  classified records the (kind, is_success) of each iteration.
note_tool_result(ev, tool_name, output) ==
    LET is_success == ~tool_result_output_likely_failure(output)
        pending == ev.shell_kinds
        kind == CASE tool_name = "file_write" -> "WriteLike"
                  [] tool_name = "file_read" -> "ReadLike"
                  [] tool_name = "shell" ->
                        IF pending # <<>> THEN Head(pending) ELSE "Other"
                  [] OTHER -> "Other"
        saw_write == ev.saw_successful_write \/ (kind = "WriteLike" /\ is_success)
    IN  [shell_kinds |->
            IF tool_name = "shell" /\ pending # <<>> THEN Tail(pending) ELSE pending,
         saw_successful_write |-> saw_write,
         saw_post_write_read_after_success |->
            \/ ev.saw_post_write_read_after_success
            \/ is_post_write_read(kind, is_success, saw_write),
         classified |-> Append(ev.classified,
                               [kind |-> kind, is_success |-> is_success])]

Least(S) == CHOOSE x \in S : \A y \in S : x <= y

\* the while loop of collect_tool_result_evidence from segment START on: the
\* next marker opens a result, whose body runs to the next </tool_result>;
\* without one the loop breaks
RECURSIVE scan_tool_results(_, _, _)
scan_tool_results(content, start, ev) ==
    LET opens == {i \in start..Len(content) : content[i].kind = "result"}
    IN  IF opens = {} THEN ev
        ELSE LET i == Least(opens)
                 closes == {j \in i..Len(content) :
                               content[j].kind = "result" /\ content[j].closed}
             IN  IF closes = {} THEN ev
                 ELSE LET j == Least(closes)
                          output == UNION {content[k].text : k \in i..j}
                      IN  scan_tool_results(content, j + 1,
                              note_tool_result(ev, content[i].name, output))

collect_tool_result_evidence(content, ev) == scan_tool_results(content, 1, ev)

NoEvidence ==
    [shell_kinds |-> <<>>,
     saw_successful_write |-> FALSE,
     saw_post_write_read_after_success |-> FALSE,
     classified |-> <<>>]

RECURSIVE collect_tool_evidence_from(_, _, _)
collect_tool_evidence_from(hist, n, ev) ==
    IF n > Len(hist) THEN ev
    ELSE LET msg == hist[n]
             next == CASE msg.role = "assistant" ->
                            [ev EXCEPT !.shell_kinds =
                                collect_shell_tool_kinds_from_assistant_calls(
                                    msg.content, ev.shell_kinds)]
                       [] msg.role = "user" ->
                            collect_tool_result_evidence(msg.content, ev)
                       [] OTHER -> ev
         IN  collect_tool_evidence_from(hist, n + 1, next)

collect_tool_evidence(hist) == collect_tool_evidence_from(hist, 1, NoEvidence)

\* a variant of lines 24-64 that accepts a write claim on evidence of a
\* successful write alone
evaluate_completion_write_suffices(response_text, hist) ==
    LET evidence == collect_tool_evidence(hist)
        decision ==
            IF contains(response_text, "[Guardrail Notice]")
            THEN Continue("guardrail_notice")
            ELSE IF /\ looks_like_filesystem_write_claim(response_text)
                    /\ ~evidence.saw_successful_write
            THEN Continue("write_claim_without_post_write_verification")
            ELSE IF looks_like_in_progress_update(response_text)
            THEN Continue("in_progress_update")
            ELSE Complete
    IN  [decision |-> decision,
         saw_successful_write |-> evidence.saw_successful_write,
         saw_post_write_read_after_success |->
            evidence.saw_post_write_read_after_success]

\* a variant of lines 24-64 that tests the progress update before the write
\* claim
evaluate_completion_progress_first(response_text, hist) ==
    LET evidence == collect_tool_evidence(hist)
        decision ==
            IF contains(response_text, "[Guardrail Notice]")
            THEN Continue("guardrail_notice")
            ELSE IF looks_like_in_progress_update(response_text)
            THEN Continue("in_progress_update")
            ELSE IF /\ looks_like_filesystem_write_claim(response_text)
                    /\ ~evidence.saw_post_write_read_after_success
            THEN Continue("write_claim_without_post_write_verification")
            ELSE Complete
    IN  [decision |-> decision,
         saw_successful_write |-> evidence.saw_successful_write,
         saw_post_write_read_after_success |->
            evidence.saw_post_write_read_after_success]

evaluate_completion(response_text, hist) ==
    LET evidence == collect_tool_evidence(hist)
        decision ==
            IF contains(response_text, "[Guardrail Notice]")
            THEN Continue("guardrail_notice")
            ELSE IF /\ looks_like_filesystem_write_claim(response_text)
                    /\ ~evidence.saw_post_write_read_after_success
            THEN Continue("write_claim_without_post_write_verification")
            ELSE IF looks_like_in_progress_update(response_text)
            THEN Continue("in_progress_update")
            ELSE Complete
    IN  [decision |-> decision,
         saw_successful_write |-> evidence.saw_successful_write,
         saw_post_write_read_after_success |->
            evidence.saw_post_write_read_after_success]

(***************************************************************************)
(* task_types.rs: the task status model.                                   *)
(***************************************************************************)
TaskStatus == {"Queued", "Running", "Blocked", "Completed", "Failed", "Cancelled"}

\* a variant of lines 41-47 in which a failed task may only be run again
can_transition_without_failed_failed(from, to) ==
    \/ from = "Queued" /\ to \in {"Running", "Cancelled"}
    \/ from = "Running" /\ to \in {"Running", "Blocked", "Completed", "Failed", "Cancelled"}
    \/ from = "Blocked" /\ to \in {"Running", "Failed", "Cancelled"}
    \/ from = "Failed" /\ to \in {"Running"}

can_transition(from, to) ==
    \/ from = "Queued" /\ to \in {"Running", "Cancelled"}
    \/ from = "Running" /\ to \in {"Running", "Blocked", "Completed", "Failed", "Cancelled"}
    \/ from = "Blocked" /\ to \in {"Running", "Failed", "Cancelled"}
    \/ from = "Failed" /\ to \in {"Running", "Failed"}

is_terminal(status) == status \in {"Completed", "Failed", "Cancelled"}

\* TaskStatus::as_str: the text the status column holds
as_str(status) ==
    CASE status = "Queued" -> "queued"
      [] status = "Running" -> "running"
      [] status = "Blocked" -> "blocked"
      [] status = "Completed" -> "completed"
      [] status = "Failed" -> "failed"
      [] status = "Cancelled" -> "cancelled"

(***************************************************************************)
(* task_store.rs: the task store.  Every public operation opens its own    *)
(* connection and runs one SQL statement; the operators below give the     *)
(* statement's effect on the tables, and StoreXxx is the operation as a    *)
(* step: it leaves the store as it is when the statement fails (no row     *)
(* with the id, a primary-key or a foreign-key violation).                 *)
(***************************************************************************)
TaskIds == 1..MaxTasks

now_rfc3339 == clock

HasRow(id) == id \in DOMAIN task_runs

\* the row INSERT INTO task_runs writes (lines 93-107)
new_task_run(id, req, now) ==
    [id |-> id,
     channel |-> req.channel,
     sender_key |-> req.sender_key,
     reply_target |-> req.reply_target,
     status |-> "Queued",
     original_request |-> req.original_request,
     last_response |-> None,
     attempt_count |-> 0,
     provider_retry_count |-> 0,
     created_at |-> now,
     updated_at |-> now,
     completed_at |-> None]

\* a variant of lines 116-120 that keeps the old rule for a cancelled task
completed_at_for_without_cancelled(status, now) ==
    IF status \in {"Completed", "Failed"} THEN Some(now) ELSE None

\* the completed_at update_status writes (lines 116-120)
completed_at_for(status, now) ==
    IF is_terminal(status) THEN Some(now) ELSE None

\* a variant of lines 123-126 that keeps a completed_at the row already has
status_updated_keeps_completed_at(row, status, now) ==
    [row EXCEPT !.status = status,
                !.updated_at = now,
                !.completed_at = IF @ # None THEN @ ELSE completed_at_for(status, now)]

\* UPDATE task_runs SET status, updated_at, completed_at (lines 123-126)
status_updated(row, status, now) ==
    [row EXCEPT !.status = status,
                !.updated_at = now,
                !.completed_at = completed_at_for(status, now)]

\* a variant of lines 148-150 that counts every bump as an attempt
counter_bumped_attempts_only(row, column, now) ==
    [row EXCEPT !.attempt_count = @ + 1, !.updated_at = now]

\* UPDATE task_runs SET column = column + 1, updated_at (lines 148-150)
counter_bumped(row, column, now) ==
    IF column = "attempt_count"
    THEN [row EXCEPT !.attempt_count = @ + 1, !.updated_at = now]
    ELSE [row EXCEPT !.provider_retry_count = @ + 1, !.updated_at = now]

\* a variant of lines 165-167 that keeps a response already stored
\* (SET last_response = COALESCE(last_response, ?1))
last_response_set_if_null(row, text, now) ==
    [row EXCEPT !.last_response = IF @ = None THEN Some(text) ELSE @,
                !.updated_at = now]

\* a variant of lines 165-167 that also stamps created_at
last_response_set_stamping_created_at(row, text, now) ==
    [row EXCEPT !.last_response = Some(text), !.updated_at = now, !.created_at = now]

\* UPDATE task_runs SET last_response, updated_at (lines 165-167)
last_response_set(row, text, now) ==
    [row EXCEPT !.last_response = Some(text), !.updated_at = now]

\* payload of an event: the JSON object's fields, None for a field it lacks
Payload(reason, rnd, att, error) ==
    [reason |-> reason, round |-> rnd, attempt |-> att, error |-> error]
NoPayload == Payload(None, None, None, None)

\* the row INSERT INTO task_events writes (lines 224-226)
new_task_event(id, tid, event_type, payload, now) ==
    [id |-> id, task_id |-> tid, event_type |-> event_type,
     payload |-> payload, created_at |-> now]

\* verified_at of upsert_artifact_verification (line 265)
verified_at_for(verified, now) == IF verified THEN Some(now) ELSE None

\* a variant of lines 268-273 that replaces the row of a path: INSERT OR
\* REPLACE deletes it and inserts a new one
artifacts_replaced(artifacts, id, tid, path, checksum, verified, now) ==
    LET Others(a) == ~(a.task_id = tid /\ a.path = path)
    IN  Append(SelectSeq(artifacts, Others),
               [id |-> id, task_id |-> tid, path |-> path,
                verified |-> verified, checksum |-> checksum,
                verified_at |-> verified_at_for(verified, now)])

\* INSERT INTO task_artifacts ... ON CONFLICT(task_id, path) DO UPDATE
\* (lines 268-273)
artifacts_upserted(artifacts, id, tid, path, checksum, verified, now) ==
    LET hit == {i \in 1..Len(artifacts) :
                   artifacts[i].task_id = tid /\ artifacts[i].path = path}
    IN  IF hit = {}
        THEN Append(artifacts,
                    [id |-> id, task_id |-> tid, path |-> path,
                     verified |-> verified, checksum |-> checksum,
                     verified_at |-> verified_at_for(verified, now)])
        ELSE [i \in 1..Len(artifacts) |->
                 IF i \in hit
                 THEN [artifacts[i] EXCEPT
                          !.verified = verified,
                          !.checksum = checksum,
                          !.verified_at = verified_at_for(verified, now)]
                 ELSE artifacts[i]]

StoreInsertTaskRun(id, req) ==
    /\ task_runs' = IF HasRow(id) THEN task_runs
                    ELSE task_runs @@ (id :> new_task_run(id, req, now_rfc3339))
    /\ UNCHANGED <<task_events, task_artifacts, event_seq, artifact_seq>>

StoreUpdateStatus(id, status) ==
    /\ task_runs' = IF HasRow(id)
                    THEN [task_runs EXCEPT ![id] = status_updated(@, status, now_rfc3339)]
                    ELSE task_runs
    /\ UNCHANGED <<task_events, task_artifacts, event_seq, artifact_seq>>

StoreBumpCounter(id, column) ==
    /\ task_runs' = IF HasRow(id)
                    THEN [task_runs EXCEPT ![id] = counter_bumped(@, column, now_rfc3339)]
                    ELSE task_runs
    /\ UNCHANGED <<task_events, task_artifacts, event_seq, artifact_seq>>

StoreIncrementAttemptCount(id) == StoreBumpCounter(id, "attempt_count")

StoreIncrementProviderRetryCount(id) == StoreBumpCounter(id, "provider_retry_count")

StoreSetLastResponse(id, text) ==
    /\ task_runs' = IF HasRow(id)
                    THEN [task_runs EXCEPT ![id] = last_response_set(@, text, now_rfc3339)]
                    ELSE task_runs
    /\ UNCHANGED <<task_events, task_artifacts, event_seq, artifact_seq>>

\* a variant of lines 223-228 on a connection without PRAGMA foreign_keys
StoreAppendEvent_without_foreign_keys(tid, event_type, payload) ==
    /\ task_events' = Append(task_events,
                             new_task_event(event_seq + 1, tid, event_type,
                                            payload, now_rfc3339))
    /\ event_seq' = event_seq + 1
    /\ UNCHANGED <<task_runs, task_artifacts, artifact_seq>>

\* INSERT INTO task_events (lines 223-228) under the foreign key of line 60
StoreAppendEvent(tid, event_type, payload) ==
    /\ IF HasRow(tid)
       THEN /\ task_events' = Append(task_events,
                                     new_task_event(event_seq + 1, tid, event_type,
                                                    payload, now_rfc3339))
            /\ event_seq' = event_seq + 1
       ELSE UNCHANGED <<task_events, event_seq>>
    /\ UNCHANGED <<task_runs, task_artifacts, artifact_seq>>

StoreUpsertArtifactVerification(tid, path, checksum, verified) ==
    /\ IF HasRow(tid)
       THEN /\ task_artifacts' =
                   artifacts_upserted(task_artifacts, artifact_seq + 1, tid, path,
                                      checksum, verified, now_rfc3339)
            /\ artifact_seq' =
                   IF \E i \in 1..Len(task_artifacts) :
                          /\ task_artifacts[i].task_id = tid
                          /\ task_artifacts[i].path = path
                   THEN artifact_seq
                   ELSE artifact_seq + 1
       ELSE UNCHANGED <<task_artifacts, artifact_seq>>
    /\ UNCHANGED <<task_runs, task_events, event_seq>>

\* the results of the store's operations
StoreOk == [kind |-> "Ok", error |-> None]
StoreErr(error) == [kind |-> "Err", error |-> Some(error)]

NotFoundError(id) == {"Task run '" \o ToString(id) \o "' not found"}
InsertTaskRunError(id) == {"Failed to insert task run '" \o ToString(id) \o "'"}
AppendEventError(tid) == {"Failed to append task event for '" \o ToString(tid) \o "'"}
UpsertArtifactError(tid) == {"Failed to upsert task artifact for '" \o ToString(tid) \o "'"}

\* a variant of lines 128-130 without the test of the changed rows
not_found_check_skipped(changed, id) == StoreOk

\* lines 128-130, 154-156, 170-172: no row changed
not_found_check(changed, id) ==
    IF changed = 0 THEN StoreErr(NotFoundError(id)) ELSE StoreOk

\* the rows an UPDATE .. WHERE id = ?1 changes
changed_rows(id) == IF HasRow(id) THEN 1 ELSE 0

insert_task_run_result(id) ==
    IF HasRow(id) THEN StoreErr(InsertTaskRunError(id)) ELSE StoreOk

append_event_result(tid) ==
    IF HasRow(tid) THEN StoreOk ELSE StoreErr(AppendEventError(tid))

upsert_artifact_verification_result(tid) ==
    IF HasRow(tid) THEN StoreOk ELSE StoreErr(UpsertArtifactError(tid))

\* the reads
get_task_run(id) == IF HasRow(id) THEN Some(task_runs[id]) ELSE None

\* a variant of lines 236-239 with ORDER BY id DESC
list_events_newest_first(tid) ==
    LET OfTask(e) == e.task_id = tid
        events == SelectSeq(task_events, OfTask)
    IN  [i \in 1..Len(events) |-> events[Len(events) + 1 - i]]

\* list_events: WHERE task_id = ?1 ORDER BY id ASC (lines 236-239); the table
\* is in id order
list_events(tid) ==
    LET OfTask(e) == e.task_id = tid
    IN  SelectSeq(task_events, OfTask)

\* a variant of line 202 that also lists the failed tasks
is_recoverable_or_failed(row) ==
    as_str(row.status) \in {"queued", "running", "blocked", "failed"}

\* WHERE status IN ('queued', 'running', 'blocked') (line 202)
is_recoverable(row) == as_str(row.status) \in {"queued", "running", "blocked"}

\* ORDER BY created_at ASC (line 203): the orders the query may return ROWS
\* in, rows of equal created_at in either order
ordered_by_created_at(rows) ==
    LET n == Cardinality(rows)
    IN  {s \in [1..n -> rows] :
            /\ \A i, j \in 1..n : i # j => s[i] # s[j]
            /\ \A i, j \in 1..n : i < j => s[i].created_at <= s[j].created_at}

\* the results list_recoverable_tasks may return (lines 197-210)
list_recoverable_tasks ==
    ordered_by_created_at(
        {task_runs[id] : id \in {i \in DOMAIN task_runs : is_recoverable(task_runs[i])}})

\* list_artifacts: WHERE task_id = ?1 ORDER BY id ASC (lines 290-293); the
\* table is in id order
list_artifacts(tid) ==
    LET OfTask(a) == a.task_id = tid
    IN  SelectSeq(task_artifacts, OfTask)


(***************************************************************************)
(* task_engine.rs: the task engine.                                        *)
(*                                                                         *)
(* A call of create_task, run_task or run_existing_task advances by one    *)
(* store call or one tool-call-loop invocation per step; pc names the next *)
(* one.  The dispatcher starts a call or calls the store directly only     *)
(* while no call is in progress.  The tool-call loop (agent/loop_.rs) is   *)
(* the environment: an invocation returns a reply or an error and may push *)
(* tool exchanges onto req.history.                                        *)
(***************************************************************************)
StallLimit == 3
DefaultMaxContinuationRounds == 4
DefaultProviderRetryLimit == 2

\* TaskEngineConfig
TaskEngineConfig(max_continuation_rounds, provider_retry_limit) ==
    [max_continuation_rounds |-> max_continuation_rounds,
     provider_retry_limit |-> provider_retry_limit]

\* TaskRunOutcome / the error of a Result, as the dispatcher receives it
NoReturn ==
    [kind |-> "none", task_id |-> 0, final_response |-> None,
     write_verified |-> FALSE, error |-> None]
OkTaskId(id) == [NoReturn EXCEPT !.kind = "Ok", !.task_id = id]
OkOutcome(id, final_response, verified) ==
    [kind |-> "Ok", task_id |-> id, final_response |-> Some(final_response),
     write_verified |-> verified, error |-> None]
ErrReturn(error) == [NoReturn EXCEPT !.kind = "Err", !.error = Some(error)]

StalledError == {"Task stalled in repeated progress-only replies"}
ExceededError(n) ==
    {"Task exceeded max continuation rounds (" \o ToString(n) \o ")"}
UnknownRoundError == {"Unknown task round error"}

\* a variant of lines 185-187 that pushes the nudge as an assistant message
NudgeMessage_from_assistant ==
    ChatMessage("assistant", <<TextSeg({"[Task Engine] zh:renwu shang wei wancheng"})>>)

NudgeMessage ==
    ChatMessage("user", <<TextSeg({"[Task Engine] zh:renwu shang wei wancheng"})>>)

\* a variant of lines 256-264 that takes every error for a transport error
is_retryable_provider_transport_error_any(error) == error = error

\* lines 256-264
is_retryable_provider_transport_error(error) ==
    LET lower == to_ascii_lowercase(error)
    IN  contains_any(lower, retryable_markers)

\* a variant of line 235 that retries once more
should_retry_inclusive(error, att, provider_retry_limit) ==
    is_retryable_provider_transport_error(error) /\ att <= provider_retry_limit

\* line 235: the retry condition of execute_single_round_with_retry
should_retry(error, att, provider_retry_limit) ==
    is_retryable_provider_transport_error(error) /\ att < provider_retry_limit

\* a variant of line 175 that stalls one Continue later
is_stalled_late(progress_only) == progress_only > StallLimit

\* line 175: the stall condition
is_stalled(progress_only) == progress_only >= StallLimit

\* a variant of line 122 that starts another round whatever the bound
loop_head_unbounded(rnd, max_continuation_rounds) == "run_tool_call_loop"

\* line 122: the head of `for round in 0..max_continuation_rounds`
loop_head(rnd, max_continuation_rounds) ==
    IF rnd < max_continuation_rounds THEN "run_tool_call_loop" ELSE "exhausted_status"

\* line 210: the head of `for attempt in 0..=provider_retry_limit`
retry_loop_head(att, provider_retry_limit) ==
    IF att <= provider_retry_limit THEN "run_tool_call_loop" ELSE "round_failed"

\* a variant of line 141 that verifies again in every round with evidence
needs_write_verification_every_round(evaluation, verified) ==
    evaluation.saw_post_write_read_after_success

\* line 141: the first-time write-verification condition
needs_write_verification(evaluation, verified) ==
    evaluation.saw_post_write_read_after_success /\ ~verified

\* line 154: the branch on eval.decision
decision_branch(evaluation) ==
    IF evaluation.decision.kind = "Complete" THEN "completed_status" ELSE "append_continue"

(***************************************************************************)
(* The inputs of Spec.                                                     *)
(***************************************************************************)
Requests ==
    {[channel |-> "imessage", sender_key |-> "sender-a", reply_target |-> "sender-a",
      original_request |-> {"zh:qing jixu chuli zhege renwu"}]}

InitialHistory(req) ==
    <<ChatMessage("system", <<TextSeg({"system"})>>),
      ChatMessage("user", <<TextSeg(req.original_request)>>)>>

\* replies of the tool-call loop: a write claim, a progress update, a final answer
Replies ==
    {{"zh:hao de, wo yijing baocun dao a.md"},
     {"zh:wo zhengzai jiancha dangqian wenjian zhuangtai"},
     {"zh:renwu yi wancheng"}}

\* the error of a tool-call loop that returned early on cancellation
CancellationError == {"cancelled"}

\* errors of the tool-call loop: a transport error, and a cancellation
ProviderErrors ==
    {{"Custom native chat transport error: error sending request for url (https://x)"},
     CancellationError}

FileCall(name) == CallSeg(1, TRUE, TRUE, name, FALSE, {})

WriteExchange ==
    <<ChatMessage("assistant", <<FileCall("file_write")>>),
      ChatMessage("user", <<TextSeg({"[Tool results]"}),
                            ResultSeg("file_write", TRUE, {"Written 3 bytes to report.md"})>>)>>

ReadExchange ==
    <<ChatMessage("assistant", <<FileCall("file_read")>>),
      ChatMessage("user", <<TextSeg({"[Tool results]"}),
                            ResultSeg("file_read", TRUE, {"abc"})>>)>>

Exchanges(hist) ==
    Cardinality({i \in 1..Len(hist) : hist[i].role = "assistant"})

\* what one invocation of run_tool_call_loop may do
LoopResults(hist) ==
    LET pushes == IF Exchanges(hist) < MaxExchanges
                  THEN {<<>>, WriteExchange, ReadExchange}
                  ELSE {<<>>}
    IN  {[ok |-> TRUE, text |-> t, pushed |-> p] : t \in Replies, p \in pushes}
        \cup {[ok |-> FALSE, text |-> e, pushed |-> <<>>] : e \in ProviderErrors}

Idle == pc \in {"idle", "returned"}

\* `let _ =` and `.ok()` on a store call: its Result is dropped.  The call
\* either takes effect or, when the database fails the statement, changes
\* nothing
BestEffort(write) ==
    \/ write /\ UNCHANGED store_faults
    \/ /\ store_faults > 0
       /\ store_faults' = store_faults - 1
       /\ UNCHANGED storeVars

\* obs: calls, loop_calls and direct count the engine calls, the tool-call-loop
\* invocations and the direct store calls of the behaviour; the others observe
\* the call in progress: round_calls the invocations of the round in progress,
\* replies the rounds that produced a reply, retries the invocations that
\* repeated a failed one, continues the Continue decisions, base_attempts and
\* base_retries the task's counters when the call began, trace the results
\* of the tool-call loop so far, statements the statements the database has
\* executed for the callers of SpecShared, in the order it executed them
NoObs ==
    [calls |-> 0, loop_calls |-> 0, direct |-> 0, round_calls |-> 0, replies |-> 0,
     retries |-> 0, continues |-> 0, base_attempts |-> 0, base_retries |-> 0,
     trace |-> <<>>, statements |-> <<>>]
CallObs(attempts, retries) ==
    [obs EXCEPT !.calls = @ + 1, !.round_calls = 0, !.replies = 0, !.retries = 0,
                !.continues = 0, !.base_attempts = attempts, !.base_retries = retries,
                !.trace = <<>>]

InitEngine ==
    /\ task_runs = <<>>
    /\ task_events = <<>>
    /\ task_artifacts = <<>>
    /\ event_seq = 0
    /\ artifact_seq = 0
    /\ clock = 0
    /\ callers = <<>>
    /\ cfg \in {TaskEngineConfig(n, r) : n \in 0..MaxRoundsCfg, r \in 0..MaxRetryCfg}
    /\ pc = "idle"
    /\ op = "none"
    /\ task_id = 0
    /\ history = <<>>
    /\ round = 0
    /\ attempt = 0
    /\ write_verified = FALSE
    /\ consecutive_progress_only = 0
    /\ response = None
    /\ eval = None
    /\ err = None
    /\ ret = NoReturn
    /\ obs = NoObs

\* a database that executes every statement
Init == InitEngine /\ store_faults = 0

\* create_task, lines 83-90: a fresh id and insert_task_run; called by the
\* dispatcher or as the first statement of run_task (lines 99-104)
CreateTask(name, req) ==
    /\ Idle
    /\ obs.calls < MaxCalls
    /\ TaskIds \ DOMAIN task_runs # {}
    /\ LET id == Least(TaskIds \ DOMAIN task_runs)
       IN  /\ task_id' = id
           /\ \/ /\ ~HasRow(id)
                 /\ StoreInsertTaskRun(id, req)
                 /\ pc' = "append_accepted"
                 /\ ret' = NoReturn
                 /\ UNCHANGED store_faults
              \/ /\ HasRow(id) \/ store_faults > 0
                 /\ store_faults' = IF HasRow(id) THEN store_faults ELSE store_faults - 1
                 /\ UNCHANGED storeVars
                 /\ pc' = "returned"
                 /\ ret' = ErrReturn(InsertTaskRunError(id))
    /\ op' = name
    /\ history' = IF name = "run_task" THEN InitialHistory(req) ELSE <<>>
    /\ round' = 0
    /\ attempt' = 0
    /\ write_verified' = FALSE
    /\ consecutive_progress_only' = 0
    /\ response' = None
    /\ eval' = None
    /\ err' = None
    /\ obs' = CallObs(0, 0)
    /\ UNCHANGED <<clock, cfg, callers>>

\* line 91, and the return of create_task
AppendAccepted ==
    /\ pc = "append_accepted"
    /\ BestEffort(StoreAppendEvent(task_id, "accepted", NoPayload))
    /\ IF op = "create_task"
       THEN pc' = "returned" /\ ret' = OkTaskId(task_id)
       ELSE pc' = "update_status_running" /\ UNCHANGED ret
    /\ UNCHANGED <<clock, cfg, callers, op, task_id, history, round, attempt, write_verified,
                   consecutive_progress_only, response, eval, err, obs>>

\* a variant of lines 105-108 that leaves the task Queued
UpdateStatusRunning_skipped ==
    /\ pc = "update_status_running"
    /\ pc' = "append_started"
    /\ UNCHANGED <<storeVars, clock, cfg, callers, store_faults, op, task_id, history, round,
                   attempt, write_verified, consecutive_progress_only, response, eval, err,
                   ret, obs>>

\* run_task, lines 105-108
UpdateStatusRunning ==
    /\ pc = "update_status_running"
    /\ BestEffort(StoreUpdateStatus(task_id, "Running"))
    /\ pc' = "append_started"
    /\ UNCHANGED <<clock, cfg, callers, op, task_id, history, round, attempt, write_verified,
                   consecutive_progress_only, response, eval, err, ret, obs>>

\* run_task, lines 109-111, and the entry of run_existing_task, lines 119-122
AppendStarted ==
    /\ pc = "append_started"
    /\ BestEffort(StoreAppendEvent(task_id, "started", NoPayload))
    /\ write_verified' = FALSE
    /\ consecutive_progress_only' = 0
    /\ round' = 0
    /\ attempt' = 0
    /\ pc' = loop_head(0, cfg.max_continuation_rounds)
    /\ UNCHANGED <<clock, cfg, callers, op, task_id, history, response, eval, err, ret, obs>>

\* a variant of lines 119-122 that starts the task's counters again
RunExistingTask_counters_reset(id, req) ==
    /\ Idle
    /\ obs.calls < MaxCalls
    /\ HasRow(id)
    /\ op' = "run_existing_task"
    /\ task_id' = id
    /\ history' = InitialHistory(req)
    /\ write_verified' = FALSE
    /\ consecutive_progress_only' = 0
    /\ round' = 0
    /\ attempt' = 0
    /\ response' = None
    /\ eval' = None
    /\ err' = None
    /\ ret' = NoReturn
    /\ obs' = CallObs(0, 0)
    /\ pc' = loop_head(0, cfg.max_continuation_rounds)
    /\ task_runs' = [task_runs EXCEPT ![id].attempt_count = 0,
                                      ![id].provider_retry_count = 0]
    /\ UNCHANGED <<task_events, task_artifacts, event_seq, artifact_seq, clock, cfg, callers, store_faults>>

\* run_existing_task called by the dispatcher on an existing task,
\* lines 119-122
RunExistingTask(id, req) ==
    /\ Idle
    /\ obs.calls < MaxCalls
    /\ HasRow(id)
    /\ op' = "run_existing_task"
    /\ task_id' = id
    /\ history' = InitialHistory(req)
    /\ write_verified' = FALSE
    /\ consecutive_progress_only' = 0
    /\ round' = 0
    /\ attempt' = 0
    /\ response' = None
    /\ eval' = None
    /\ err' = None
    /\ ret' = NoReturn
    /\ obs' = CallObs(task_runs[id].attempt_count, task_runs[id].provider_retry_count)
    /\ pc' = loop_head(0, cfg.max_continuation_rounds)
    /\ UNCHANGED <<storeVars, clock, cfg, callers, store_faults>>

\* execute_single_round_with_retry, lines 211-235 and 248: one invocation of
\* the tool-call loop and the match on its result
RunToolCallLoop ==
    /\ pc = "run_tool_call_loop"
    /\ obs.loop_calls < MaxLoopCalls
    /\ \E result \in LoopResults(history) :
        /\ history' = history \o result.pushed
        /\ obs' = [obs EXCEPT !.loop_calls = @ + 1,
                              !.round_calls = @ + 1,
                              !.retries = IF obs.round_calls > 0 THEN @ + 1 ELSE @,
                              !.replies = IF result.ok THEN @ + 1 ELSE @,
                              !.trace = Append(@, result)]
        /\ IF result.ok
           THEN /\ response' = Some(result.text)
                /\ pc' = "increment_attempt_count"
                /\ UNCHANGED err
           ELSE /\ err' = Some(result.text)
                /\ pc' = IF should_retry(result.text, attempt, cfg.provider_retry_limit)
                         THEN "increment_provider_retry_count"
                         ELSE "provider_error_status"
                /\ UNCHANGED response
    /\ UNCHANGED <<storeVars, clock, cfg, callers, store_faults, op, task_id, round, attempt, write_verified,
                   consecutive_progress_only, eval, ret>>

\* a variant of line 236 that leaves the counter as it is
IncrementProviderRetryCount_skipped ==
    /\ pc = "increment_provider_retry_count"
    /\ pc' = "append_provider_retry"
    /\ UNCHANGED <<storeVars, clock, cfg, callers, store_faults, op, task_id, history, round,
                   attempt, write_verified, consecutive_progress_only, response, eval, err,
                   ret, obs>>

\* line 236
IncrementProviderRetryCount ==
    /\ pc = "increment_provider_retry_count"
    /\ BestEffort(StoreIncrementProviderRetryCount(task_id))
    /\ pc' = "append_provider_retry"
    /\ UNCHANGED <<clock, cfg, callers, op, task_id, history, round, attempt, write_verified,
                   consecutive_progress_only, response, eval, err, ret, obs>>

\* lines 237-246, and the next iteration of the retry loop (line 210); the
\* loop left with last_error is line 253
AppendProviderRetry ==
    /\ pc = "append_provider_retry"
    /\ BestEffort(StoreAppendEvent(task_id, "provider_retry",
                                   Payload(None, None, Some(attempt + 1), err)))
    /\ attempt' = attempt + 1
    /\ pc' = IF retry_loop_head(attempt + 1, cfg.provider_retry_limit) = "round_failed"
             THEN "provider_error_status"
             ELSE "run_tool_call_loop"
    /\ UNCHANGED <<clock, cfg, callers, op, task_id, history, round, write_verified,
                   consecutive_progress_only, response, eval, err, ret, obs>>

\* a variant of line 128 that leaves the status as it is
ProviderErrorStatus_unchanged ==
    /\ pc = "provider_error_status"
    /\ pc' = "provider_error_event"
    /\ UNCHANGED <<storeVars, clock, cfg, callers, store_faults, op, task_id, history, round, attempt,
                   write_verified, consecutive_progress_only, response, eval, err,
                   ret, obs>>

\* the map_err closure, line 128
ProviderErrorStatus ==
    /\ pc = "provider_error_status"
    /\ BestEffort(StoreUpdateStatus(task_id, "Failed"))
    /\ pc' = "provider_error_event"
    /\ UNCHANGED <<clock, cfg, callers, op, task_id, history, round, attempt, write_verified,
                   consecutive_progress_only, response, eval, err, ret, obs>>

\* the map_err closure, lines 129-134, and the `?` of line 135
ProviderErrorEvent ==
    /\ pc = "provider_error_event"
    /\ BestEffort(StoreAppendEvent(task_id, "failed", Payload(Some("provider_error"), None, None, err)))
    /\ ret' = ErrReturn(err[1])
    /\ pc' = "returned"
    /\ UNCHANGED <<clock, cfg, callers, op, task_id, history, round, attempt, write_verified,
                   consecutive_progress_only, response, eval, err, obs>>

\* a variant of line 137 that propagates the store's error with `?`
IncrementAttemptCount_propagated ==
    /\ pc = "increment_attempt_count"
    /\ \/ /\ StoreIncrementAttemptCount(task_id)
          /\ pc' = "set_last_response"
          /\ UNCHANGED <<store_faults, ret>>
       \/ /\ store_faults > 0
          /\ store_faults' = store_faults - 1
          /\ pc' = "returned"
          /\ ret' = ErrReturn(NotFoundError(task_id))
          /\ UNCHANGED storeVars
    /\ UNCHANGED <<clock, cfg, callers, op, task_id, history, round, attempt, write_verified,
                   consecutive_progress_only, response, eval, err, obs>>

\* line 137
IncrementAttemptCount ==
    /\ pc = "increment_attempt_count"
    /\ BestEffort(StoreIncrementAttemptCount(task_id))
    /\ pc' = "set_last_response"
    /\ UNCHANGED <<clock, cfg, callers, op, task_id, history, round, attempt, write_verified,
                   consecutive_progress_only, response, eval, err, ret, obs>>

\* lines 138-141 and 154: set_last_response, the evaluation and the branches
\* on its result
SetLastResponse ==
    /\ pc = "set_last_response"
    /\ BestEffort(StoreSetLastResponse(task_id, response[1]))
    /\ LET evaluation == evaluate_completion(response[1], history)
       IN  /\ eval' = Some(evaluation)
           /\ pc' = IF needs_write_verification(evaluation, write_verified)
                    THEN "upsert_artifact_verification"
                    ELSE decision_branch(evaluation)
           /\ obs' = [obs EXCEPT !.continues =
                         IF evaluation.decision.kind = "Continue" THEN @ + 1 ELSE @]
    /\ UNCHANGED <<clock, cfg, callers, op, task_id, history, round, attempt, write_verified,
                   consecutive_progress_only, response, err, ret>>

\* lines 142-148
UpsertArtifactVerification ==
    /\ pc = "upsert_artifact_verification"
    /\ write_verified' = TRUE
    /\ BestEffort(StoreUpsertArtifactVerification(task_id, "__history_verified__", None, TRUE))
    /\ pc' = "append_tool_write_verified"
    /\ UNCHANGED <<clock, cfg, callers, op, task_id, history, round, attempt,
                   consecutive_progress_only, response, eval, err, ret, obs>>

\* lines 149-154
AppendToolWriteVerified ==
    /\ pc = "append_tool_write_verified"
    /\ BestEffort(StoreAppendEvent(task_id, "tool_write_verified", NoPayload))
    /\ pc' = decision_branch(eval[1])
    /\ UNCHANGED <<clock, cfg, callers, op, task_id, history, round, attempt, write_verified,
                   consecutive_progress_only, response, eval, err, ret, obs>>

\* a variant of line 156 that leaves the status as it is
CompletedStatus_unchanged ==
    /\ pc = "completed_status"
    /\ pc' = "completed_event"
    /\ UNCHANGED <<storeVars, clock, cfg, callers, store_faults, op, task_id, history, round, attempt,
                   write_verified, consecutive_progress_only, response, eval, err,
                   ret, obs>>

\* line 156
CompletedStatus ==
    /\ pc = "completed_status"
    /\ BestEffort(StoreUpdateStatus(task_id, "Completed"))
    /\ pc' = "completed_event"
    /\ UNCHANGED <<clock, cfg, callers, op, task_id, history, round, attempt, write_verified,
                   consecutive_progress_only, response, eval, err, ret, obs>>

\* a variant of lines 157-166 that reports the loop index as the round
CompletedEvent_loop_index ==
    /\ pc = "completed_event"
    /\ BestEffort(StoreAppendEvent(task_id, "completed", Payload(None, Some(round), None, None)))
    /\ ret' = OkOutcome(task_id, response[1], write_verified)
    /\ pc' = "returned"
    /\ UNCHANGED <<clock, cfg, callers, op, task_id, history, round, attempt, write_verified,
                   consecutive_progress_only, response, eval, err, obs>>

\* lines 157-166
CompletedEvent ==
    /\ pc = "completed_event"
    /\ BestEffort(StoreAppendEvent(task_id, "completed", Payload(None, Some(round + 1), None, None)))
    /\ ret' = OkOutcome(task_id, response[1], write_verified)
    /\ pc' = "returned"
    /\ UNCHANGED <<clock, cfg, callers, op, task_id, history, round, attempt, write_verified,
                   consecutive_progress_only, response, eval, err, obs>>

\* lines 169-175 and, when the task has not stalled, lines 185-187 and the
\* next iteration of the round loop (line 122)
AppendContinue ==
    /\ pc = "append_continue"
    /\ BestEffort(StoreAppendEvent(task_id, "continue",
                                   Payload(Some(eval[1].decision.reason), Some(round + 1), None, None)))
    /\ consecutive_progress_only' = consecutive_progress_only + 1
    /\ IF is_stalled(consecutive_progress_only + 1)
       THEN /\ pc' = "stalled_status"
            /\ UNCHANGED <<history, round, attempt, obs>>
       ELSE /\ history' = Append(history, NudgeMessage)
            /\ round' = round + 1
            /\ attempt' = 0
            /\ obs' = [obs EXCEPT !.round_calls = 0]
            /\ pc' = loop_head(round + 1, cfg.max_continuation_rounds)
    /\ UNCHANGED <<clock, cfg, callers, op, task_id, write_verified, response, eval, err, ret>>

\* line 177
StalledStatus ==
    /\ pc = "stalled_status"
    /\ BestEffort(StoreUpdateStatus(task_id, "Failed"))
    /\ pc' = "stalled_event"
    /\ UNCHANGED <<clock, cfg, callers, op, task_id, history, round, attempt, write_verified,
                   consecutive_progress_only, response, eval, err, ret, obs>>

\* lines 178-183
StalledEvent ==
    /\ pc = "stalled_event"
    /\ BestEffort(StoreAppendEvent(task_id, "failed", Payload(Some("stalled_loop"), None, None, None)))
    /\ ret' = ErrReturn(StalledError)
    /\ pc' = "returned"
    /\ UNCHANGED <<clock, cfg, callers, op, task_id, history, round, attempt, write_verified,
                   consecutive_progress_only, response, eval, err, obs>>

\* line 192
ExhaustedStatus ==
    /\ pc = "exhausted_status"
    /\ BestEffort(StoreUpdateStatus(task_id, "Failed"))
    /\ pc' = "exhausted_event"
    /\ UNCHANGED <<clock, cfg, callers, op, task_id, history, round, attempt, write_verified,
                   consecutive_progress_only, response, eval, err, ret, obs>>

\* a variant of lines 193-201 that reports the stall reason
ExhaustedEvent_stall_reason ==
    /\ pc = "exhausted_event"
    /\ BestEffort(StoreAppendEvent(task_id, "failed",
                                   Payload(Some("stalled_loop"), None, None, None)))
    /\ ret' = ErrReturn(ExceededError(cfg.max_continuation_rounds))
    /\ pc' = "returned"
    /\ UNCHANGED <<clock, cfg, callers, op, task_id, history, round, attempt, write_verified,
                   consecutive_progress_only, response, eval, err, obs>>

\* lines 193-201
ExhaustedEvent ==
    /\ pc = "exhausted_event"
    /\ BestEffort(StoreAppendEvent(task_id, "failed",
                                   Payload(Some("max_continuation_rounds_exhausted"), None, None, None)))
    /\ ret' = ErrReturn(ExceededError(cfg.max_continuation_rounds))
    /\ pc' = "returned"
    /\ UNCHANGED <<clock, cfg, callers, op, task_id, history, round, attempt, write_verified,
                   consecutive_progress_only, response, eval, err, obs>>

(***************************************************************************)
(* The dispatcher's direct use of the store (TaskEngine::store, line 68).   *)
(***************************************************************************)
DirectUpdateStatus(id, status) ==
    /\ Idle
    /\ obs.direct < MaxDirect
    /\ StoreUpdateStatus(id, status)
    /\ pc' = "idle"
    /\ obs' = [obs EXCEPT !.direct = @ + 1]
    /\ UNCHANGED <<clock, cfg, callers, store_faults, op, task_id, history, round, attempt, write_verified,
                   consecutive_progress_only, response, eval, err, ret>>

EngineStep ==
    \/ AppendAccepted
    \/ UpdateStatusRunning
    \/ AppendStarted
    \/ RunToolCallLoop
    \/ IncrementProviderRetryCount
    \/ AppendProviderRetry
    \/ ProviderErrorStatus
    \/ ProviderErrorEvent
    \/ IncrementAttemptCount
    \/ SetLastResponse
    \/ UpsertArtifactVerification
    \/ AppendToolWriteVerified
    \/ CompletedStatus
    \/ CompletedEvent
    \/ AppendContinue
    \/ StalledStatus
    \/ StalledEvent
    \/ ExhaustedStatus
    \/ ExhaustedEvent

Next ==
    \/ \E req \in Requests : CreateTask("create_task", req)
    \/ \E req \in Requests : CreateTask("run_task", req)
    \/ \E id \in TaskIds, req \in Requests : RunExistingTask(id, req)
    \/ EngineStep
    \/ \E id \in TaskIds, status \in TaskStatus : DirectUpdateStatus(id, status)

Spec == Init /\ [][Next]_vars

(***************************************************************************)
(* SpecEval: evaluate_completion on bounded inputs.  A transcript is built *)
(* message by message from EvalMessages, then a response of EvalResponses  *)
(* is evaluated against it; history, response and eval hold the            *)
(* transcript, the response and the result.                                *)
(***************************************************************************)
ShellCall(tag, command) == CallSeg(tag, TRUE, TRUE, "shell", TRUE, command)

EvalMessages ==
    {ChatMessage("assistant", <<ShellCall(1, {"echo abc > report.md"})>>),
     ChatMessage("assistant", <<ShellCall(4, {"cat report.md"}),
                                ShellCall(1, {"echo abc > report.md"})>>),
     ChatMessage("assistant", <<ShellCall(1, {"CAT report.md"})>>),
     ChatMessage("user", <<ResultSeg("file_write", TRUE, {"Written 3 bytes to report.md"})>>),
     ChatMessage("user", <<ResultSeg("file_write", TRUE, {"Action blocked: denied"})>>),
     ChatMessage("user", <<ResultSeg("file_read", TRUE, {"abc"})>>),
     ChatMessage("user", <<ResultSeg("file_read", TRUE, {"ERROR: No such file"})>>),
     ChatMessage("user", <<ResultSeg("shell", TRUE, {"abc"})>>),
     ChatMessage("user", <<ResultSeg("file_read", TRUE, {"abc"}),
                           ResultSeg("file_write", TRUE, {"Written 3 bytes to report.md"})>>),
     ChatMessage("user", <<ResultSeg("file_write", FALSE, {"Written 3 bytes to report.md"}),
                           ResultSeg("file_read", TRUE, {"abc"})>>),
     ChatMessage("user", <<ResultSeg("memory_store", TRUE, {"Written 3 bytes to report.md"})>>),
     ChatMessage("tool", <<ResultSeg("file_write", TRUE, {"Written 3 bytes to report.md"})>>)}

EvalFragments ==
    {"[Guardrail Notice] tool call blocked",
     "zh:hao de, wo yijing baocun dao a.md",
     "zh:jieguo xie dao le a.md",
     "zh:wo zhengzai jiancha dangqian wenjian zhuangtai",
     "I Saved the notes to docs/notes.md",
     "I wrote a summary",
     "Let me check the logs",
     "done"}

\* a response is made of one or two fragments
EvalResponses == {{f, g} : f \in EvalFragments, g \in EvalFragments}

InitEval ==
    /\ task_runs = <<>>
    /\ task_events = <<>>
    /\ task_artifacts = <<>>
    /\ event_seq = 0
    /\ artifact_seq = 0
    /\ clock = 0
    /\ callers = <<>>
    /\ store_faults = 0
    /\ cfg = TaskEngineConfig(DefaultMaxContinuationRounds, DefaultProviderRetryLimit)
    /\ pc = "eval_input"
    /\ op = "evaluate_completion"
    /\ task_id = 0
    /\ history = <<>>
    /\ round = 0
    /\ attempt = 0
    /\ write_verified = FALSE
    /\ consecutive_progress_only = 0
    /\ response = None
    /\ eval = None
    /\ err = None
    /\ ret = NoReturn
    /\ obs = NoObs

EvalPush(msg) ==
    /\ pc = "eval_input"
    /\ Len(history) < MaxEvalHistory
    /\ history' = Append(history, msg)
    /\ UNCHANGED <<storeVars, clock, cfg, callers, store_faults, pc, op, task_id, round, attempt, write_verified,
                   consecutive_progress_only, response, eval, err, ret, obs>>

EvalApply(response_text) ==
    /\ pc = "eval_input"
    /\ response' = Some(response_text)
    /\ eval' = Some(evaluate_completion(response_text, history))
    /\ pc' = "eval_done"
    /\ UNCHANGED <<storeVars, clock, cfg, callers, store_faults, op, task_id, history, round, attempt,
                   write_verified, consecutive_progress_only, err, ret, obs>>

NextEval ==
    \/ \E msg \in EvalMessages : EvalPush(msg)
    \/ \E response_text \in EvalResponses : EvalApply(response_text)

SpecEval == InitEval /\ [][NextEval]_vars

(***************************************************************************)
(* The engine on a database that fails up to MaxStoreFaults statements:    *)
(* the calls and steps of Spec without the dispatcher's own store call,    *)
(* where a store call of the engine either takes effect or returns an      *)
(* error and changes nothing.                                              *)
(***************************************************************************)
InitFaults == InitEngine /\ store_faults = MaxStoreFaults

NextFaults ==
    \/ \E req \in Requests : CreateTask("create_task", req)
    \/ \E req \in Requests : CreateTask("run_task", req)
    \/ \E id \in TaskIds, req \in Requests : RunExistingTask(id, req)
    \/ EngineStep

SpecFaults == InitFaults /\ [][NextFaults]_vars

(***************************************************************************)
(* The engine with a thread that keeps executing: once a call has begun,   *)
(* its next statement is eventually executed, and an invocation of the     *)
(* tool-call loop eventually returns.  The configurations are those whose  *)
(* invocations fit in MaxLoopCalls, and a call begins only while no        *)
(* invocation has been spent, so that no call stops at the bound.          *)
(***************************************************************************)
InitLive ==
    /\ Init
    /\ cfg.max_continuation_rounds * (cfg.provider_retry_limit + 1) <= MaxLoopCalls

NextLive ==
    \/ \E req \in Requests : obs.loop_calls = 0 /\ CreateTask("create_task", req)
    \/ \E req \in Requests : obs.loop_calls = 0 /\ CreateTask("run_task", req)
    \/ \E id \in TaskIds, req \in Requests :
           obs.loop_calls = 0 /\ RunExistingTask(id, req)
    \/ EngineStep

SpecLive == InitLive /\ [][NextLive]_vars /\ WF_vars(EngineStep)

(***************************************************************************)
(* SpecStore: the store used on its own.  A caller holding the store       *)
(* (TaskStore::new, or TaskEngine::store) calls its operations in any      *)
(* order, on ids with and without a task row, while time passes.  op and   *)
(* task_id hold the last call's name and id, response its text argument,   *)
(* err its optional second text argument, write_verified its flag          *)
(* argument, and ret its result.                                           *)
(***************************************************************************)
EventTypeInputs == {"accepted", "failed"}

PathInputs == {"a.md", "__history_verified__"}

ChecksumInputs == {None, Some("abc")}

StoreReturn(result) == [NoReturn EXCEPT !.kind = result.kind, !.error = result.error]

InitStore ==
    /\ task_runs = <<>>
    /\ task_events = <<>>
    /\ task_artifacts = <<>>
    /\ event_seq = 0
    /\ artifact_seq = 0
    /\ clock = 0
    /\ callers = <<>>
    /\ store_faults = 0
    /\ cfg = TaskEngineConfig(DefaultMaxContinuationRounds, DefaultProviderRetryLimit)
    /\ pc = "store"
    /\ op = "new"
    /\ task_id = 0
    /\ history = <<>>
    /\ round = 0
    /\ attempt = 0
    /\ write_verified = FALSE
    /\ consecutive_progress_only = 0
    /\ response = None
    /\ eval = None
    /\ err = None
    /\ ret = NoReturn
    /\ obs = NoObs

\* the caller's side of one call of the store
StoreCall(name, id, text, extra, flag, result) ==
    /\ pc = "store"
    /\ obs.direct < MaxStoreCalls
    /\ op' = name
    /\ task_id' = id
    /\ response' = text
    /\ err' = extra
    /\ write_verified' = flag
    /\ ret' = StoreReturn(result)
    /\ obs' = [obs EXCEPT !.direct = @ + 1]
    /\ UNCHANGED <<clock, cfg, callers, store_faults, pc, history, round, attempt, consecutive_progress_only,
                   eval>>

CallInsertTaskRun(id, req) ==
    /\ StoreInsertTaskRun(id, req)
    /\ StoreCall("insert_task_run", id, None, None, FALSE, insert_task_run_result(id))

CallUpdateStatus(id, status) ==
    /\ StoreUpdateStatus(id, status)
    /\ StoreCall("update_status", id, Some(as_str(status)), None, FALSE,
                 not_found_check(changed_rows(id), id))

CallIncrementAttemptCount(id) ==
    /\ StoreIncrementAttemptCount(id)
    /\ StoreCall("increment_attempt_count", id, None, None, FALSE,
                 not_found_check(changed_rows(id), id))

CallIncrementProviderRetryCount(id) ==
    /\ StoreIncrementProviderRetryCount(id)
    /\ StoreCall("increment_provider_retry_count", id, None, None, FALSE,
                 not_found_check(changed_rows(id), id))

CallSetLastResponse(id, text) ==
    /\ StoreSetLastResponse(id, text)
    /\ StoreCall("set_last_response", id, Some(text), None, FALSE,
                 not_found_check(changed_rows(id), id))

CallAppendEvent(tid, event_type) ==
    /\ StoreAppendEvent(tid, event_type, NoPayload)
    /\ StoreCall("append_event", tid, Some(event_type), None, FALSE, append_event_result(tid))

CallUpsertArtifactVerification(tid, path, checksum, verified) ==
    /\ StoreUpsertArtifactVerification(tid, path, checksum, verified)
    /\ StoreCall("upsert_artifact_verification", tid, Some(path), checksum, verified,
                 upsert_artifact_verification_result(tid))

\* Utc::now() between two calls
Tick ==
    /\ pc = "store"
    /\ clock < MaxClock
    /\ clock' = clock + 1
    /\ UNCHANGED <<storeVars, cfg, callers, store_faults, frameVars, obs>>

NextStore ==
    \/ \E id \in TaskIds, req \in Requests : CallInsertTaskRun(id, req)
    \/ \E id \in TaskIds, status \in TaskStatus : CallUpdateStatus(id, status)
    \/ \E id \in TaskIds : CallIncrementAttemptCount(id)
    \/ \E id \in TaskIds : CallIncrementProviderRetryCount(id)
    \/ \E id \in TaskIds, text \in Replies : CallSetLastResponse(id, text)
    \/ \E tid \in TaskIds, event_type \in EventTypeInputs : CallAppendEvent(tid, event_type)
    \/ \E tid \in TaskIds, path \in PathInputs, checksum \in ChecksumInputs,
          verified \in BOOLEAN :
           CallUpsertArtifactVerification(tid, path, checksum, verified)
    \/ Tick

SpecStore == InitStore /\ [][NextStore]_vars

(***************************************************************************)
(* SpecSchema: the store's calls of SpecStore, and the deletion of a task  *)
(* row by a DELETE FROM task_runs statement on a connection opened as      *)
(* with_connection opens it.  TaskStore has no call that deletes; what a   *)
(* deletion does is fixed by the schema: PRAGMA foreign_keys = ON and the  *)
(* two FOREIGN KEY ... ON DELETE CASCADE clauses (lines 34, 60, 72).       *)
(***************************************************************************)
StoreDeleteTaskRun(id) ==
    /\ task_runs' = [i \in DOMAIN task_runs \ {id} |-> task_runs[i]]
    /\ task_events' = SelectSeq(task_events, LAMBDA e : e.task_id # id)
    /\ task_artifacts' = SelectSeq(task_artifacts, LAMBDA a : a.task_id # id)
    /\ UNCHANGED <<event_seq, artifact_seq>>

CallDeleteTaskRun(id) ==
    /\ StoreDeleteTaskRun(id)
    /\ StoreCall("delete_task_run", id, None, None, FALSE, StoreOk)

NextSchema ==
    \/ NextStore
    \/ \E id \in TaskIds : CallDeleteTaskRun(id)

SpecSchema == InitStore /\ [][NextSchema]_vars

(***************************************************************************)
(* SpecShared: several engines, each with a TaskStore on the same          *)
(* task-runs.db, call the store from their own threads.  A call first      *)
(* reads the clock into its local `now` (lines 90, 115, 144), then opens   *)
(* its connection and executes its one SQL statement; other callers' steps *)
(* and clock ticks come in between.  SQLite executes a statement outside   *)
(* a transaction as a transaction of its own: it takes effect as a whole   *)
(* or, when the database is busy, fails and changes nothing.               *)
(***************************************************************************)
IdleCaller == [pc |-> "idle", call |-> "none", id |-> 0, arg |-> "none", now |-> 0]

\* the locals of a call that has read the clock and not yet executed its statement
PendingCall(call, id, arg) ==
    [pc |-> "statement", call |-> call, id |-> id, arg |-> arg, now |-> now_rfc3339]

InitShared ==
    /\ task_runs = <<>>
    /\ task_events = <<>>
    /\ task_artifacts = <<>>
    /\ event_seq = 0
    /\ artifact_seq = 0
    /\ clock = 0
    /\ store_faults = MaxStoreFaults
    /\ callers = [c \in 1..MaxCallers |-> IdleCaller]
    /\ cfg = TaskEngineConfig(DefaultMaxContinuationRounds, DefaultProviderRetryLimit)
    /\ pc = "store"
    /\ op = "new"
    /\ task_id = 0
    /\ history = <<>>
    /\ round = 0
    /\ attempt = 0
    /\ write_verified = FALSE
    /\ consecutive_progress_only = 0
    /\ response = None
    /\ eval = None
    /\ err = None
    /\ ret = NoReturn
    /\ obs = NoObs

\* the call up to `let now = now_rfc3339()`
BeginCall(c, call, id, arg) ==
    /\ callers[c].pc = "idle"
    /\ obs.direct < MaxSharedCalls
    /\ callers' = [callers EXCEPT ![c] = PendingCall(call, id, arg)]
    /\ obs' = [obs EXCEPT !.direct = @ + 1]
    /\ UNCHANGED <<storeVars, clock, cfg, store_faults, frameVars>>

\* the rows of task_runs after the statement of a pending call
statement_effect(rows, call) ==
    IF call.call = "insert_task_run"
    THEN IF call.id \in DOMAIN rows
         THEN rows
         ELSE rows @@ (call.id :> new_task_run(call.id, call.arg, call.now))
    ELSE IF call.id \notin DOMAIN rows
    THEN rows
    ELSE IF call.call = "update_status"
    THEN [rows EXCEPT ![call.id] = status_updated(@, call.arg, call.now)]
    ELSE [rows EXCEPT ![call.id] = counter_bumped(@, call.arg, call.now)]

\* with_connection and conn.execute: the statement, as one step of the
\* database; a statement that succeeds is the insert of a new id or an
\* update of an existing row
ExecuteStatement(c) ==
    /\ callers[c].pc = "statement"
    /\ \/ /\ task_runs' = statement_effect(task_runs, callers[c])
          /\ obs' = [obs EXCEPT !.statements =
                        IF (callers[c].call = "insert_task_run") # HasRow(callers[c].id)
                        THEN Append(@, callers[c])
                        ELSE @]
          /\ UNCHANGED store_faults
       \/ /\ store_faults > 0
          /\ store_faults' = store_faults - 1
          /\ UNCHANGED <<task_runs, obs>>
    /\ callers' = [callers EXCEPT ![c] = IdleCaller]
    /\ UNCHANGED <<task_events, task_artifacts, event_seq, artifact_seq, clock, cfg,
                   frameVars>>

NextShared ==
    \/ \E c \in 1..MaxCallers, id \in TaskIds, req \in Requests :
           BeginCall(c, "insert_task_run", id, req)
    \/ \E c \in 1..MaxCallers, id \in TaskIds, status \in {"Running", "Completed", "Failed"} :
           BeginCall(c, "update_status", id, status)
    \/ \E c \in 1..MaxCallers, id \in TaskIds,
             column \in {"attempt_count", "provider_retry_count"} :
           BeginCall(c, "bump_counter", id, column)
    \/ \E c \in 1..MaxCallers : ExecuteStatement(c)
    \/ Tick

SpecShared == InitShared /\ [][NextShared]_vars

(***************************************************************************)
(* SpecTypes: TaskStatus::can_transition called on any two statuses, as    *)
(* the test of task_types.rs does.  history holds the calls made: the two  *)
(* statuses and the result.                                                *)
(***************************************************************************)
InitTypes ==
    /\ task_runs = <<>>
    /\ task_events = <<>>
    /\ task_artifacts = <<>>
    /\ event_seq = 0
    /\ artifact_seq = 0
    /\ clock = 0
    /\ callers = <<>>
    /\ store_faults = 0
    /\ cfg = TaskEngineConfig(DefaultMaxContinuationRounds, DefaultProviderRetryLimit)
    /\ pc = "types"
    /\ op = "can_transition"
    /\ task_id = 0
    /\ history = <<>>
    /\ round = 0
    /\ attempt = 0
    /\ write_verified = FALSE
    /\ consecutive_progress_only = 0
    /\ response = None
    /\ eval = None
    /\ err = None
    /\ ret = NoReturn
    /\ obs = NoObs

CallCanTransition(from, to) ==
    /\ pc = "types"
    /\ Len(history) < MaxQueries
    /\ history' = Append(history,
                         [from |-> from, to |-> to, result |-> can_transition(from, to)])
    /\ UNCHANGED <<storeVars, clock, cfg, callers, store_faults, pc, op, task_id, round, attempt, write_verified,
                   consecutive_progress_only, response, eval, err, ret, obs>>

NextTypes == \E from \in TaskStatus, to \in TaskStatus : CallCanTransition(from, to)

SpecTypes == InitTypes /\ [][NextTypes]_vars

(***************************************************************************)
(* Properties.                                                             *)
(***************************************************************************)
EngineCall == op \in {"run_task", "run_existing_task"}

Returned == pc = "returned" /\ EngineCall

Row == task_runs[task_id]

LastEvents(tid, n) ==
    LET events == list_events(tid)
    IN  SubSeq(events, Len(events) - n + 1, Len(events))

EventTypes(events) == [i \in 1..Len(events) |-> events[i].event_type]

Nudges(hist) == Cardinality({i \in 1..Len(hist) : hist[i] = NudgeMessage})

TerminalEvents(tid) ==
    LET IsTerminalEvent(e) == e.task_id = tid /\ e.event_type \in {"completed", "failed"}
    IN  SelectSeq(task_events, IsTerminalEvent)

\* C1: every change of a task's persisted status made by a step of the engine
\* (create_task, run_task, run_existing_task on an existing task in whatever
\* status) goes from s to t with can_transition(s, t); so a Completed or
\* Cancelled task never changes status again.  A direct store call of the
\* dispatcher is the only step that leaves pc at "idle".
C1_StatusChangesFollowTransitionTable ==
    [][\A id \in DOMAIN task_runs :
          (pc' # "idle" /\ task_runs'[id].status # task_runs[id].status)
              => can_transition(task_runs[id].status, task_runs'[id].status)]_vars

\* C2: evaluate_completion decides by priority: a guardrail notice gives
\* Continue{guardrail_notice} whatever the evidence; else a write claim
\* without a post-write read gives
\* Continue{write_claim_without_post_write_verification}; else a progress
\* update gives Continue{in_progress_update}; else Complete.  So Complete
\* for a write claim needs a successful write followed by a successful read
\* in the transcript.
C2_DecisionPriority ==
    pc = "eval_done" =>
        LET text == response[1]
            result == eval[1]
            classified == collect_tool_evidence(history).classified
            guardrail == \E f \in text : "[Guardrail Notice]" \in Occurs(f)
            write_claim == looks_like_filesystem_write_claim(text)
            unverified_claim ==
                write_claim /\ ~result.saw_post_write_read_after_success
            progress == looks_like_in_progress_update(text)
            write_then_read ==
                \E i, j \in 1..Len(classified) :
                    /\ i < j
                    /\ classified[i] = [kind |-> "WriteLike", is_success |-> TRUE]
                    /\ classified[j] = [kind |-> "ReadLike", is_success |-> TRUE]
        IN  /\ guardrail => result.decision = Continue("guardrail_notice")
            /\ (~guardrail /\ unverified_claim) =>
                   result.decision =
                       Continue("write_claim_without_post_write_verification")
            /\ (~guardrail /\ ~unverified_claim /\ progress) =>
                   result.decision = Continue("in_progress_update")
            /\ (~guardrail /\ ~unverified_claim /\ ~progress) =>
                   result.decision = Complete
            /\ (result.decision = Complete /\ write_claim) => write_then_read

\* a guardrail notice in a write claim overrides the evidence of a verified write
C2_Witness ==
    /\ pc = "eval_done"
    /\ contains(response[1], "[Guardrail Notice]")
    /\ looks_like_filesystem_write_claim(response[1])
    /\ eval[1].saw_post_write_read_after_success
    /\ eval[1].decision = Continue("guardrail_notice")

\* C3: saw_post_write_read_after_success is true only if a successful
\* WriteLike result comes before a successful ReadLike result in the
\* transcript; so it implies saw_successful_write, and a successful read
\* before every successful write does not set it.
C3_PostWriteReadNeedsEarlierWrite ==
    LET evidence == collect_tool_evidence(history)
        classified == evidence.classified
        Successful(i, kind) == classified[i] = [kind |-> kind, is_success |-> TRUE]
    IN  /\ evidence.saw_post_write_read_after_success =>
               \E i, j \in 1..Len(classified) :
                   i < j /\ Successful(i, "WriteLike") /\ Successful(j, "ReadLike")
        /\ evidence.saw_post_write_read_after_success => evidence.saw_successful_write
        /\ pc = "eval_done" =>
               /\ eval[1].saw_successful_write = evidence.saw_successful_write
               /\ eval[1].saw_post_write_read_after_success =
                      evidence.saw_post_write_read_after_success

\* a successful read, then a successful write, and no read after it
C3_Witness ==
    LET evidence == collect_tool_evidence(history)
        classified == evidence.classified
    IN  /\ pc = "eval_done"
        /\ evidence.saw_successful_write
        /\ ~eval[1].saw_post_write_read_after_success
        /\ \E j \in 1..Len(classified) :
               classified[j] = [kind |-> "ReadLike", is_success |-> TRUE]

\* C4: the third Continue of one run_existing_task invocation fails the
\* task: status Failed, events continue{round:3} then failed{stalled_loop},
\* the error "Task stalled in repeated progress-only replies", no nudge for
\* the third Continue and no further round.
C4_ThirdContinueStalls ==
    /\ obs.continues <= 3
    /\ obs.continues = 3 =>
          /\ pc \in {"upsert_artifact_verification", "append_tool_write_verified",
                     "append_continue", "stalled_status", "stalled_event",
                     "returned", "idle"}
          /\ obs.replies = 3
          /\ Nudges(history) = 2
    /\ (Returned /\ obs.continues = 3) =>
          /\ Row.status = "Failed"
          /\ LET last == LastEvents(task_id, 2)
             IN  /\ EventTypes(last) = <<"continue", "failed">>
                 /\ last[1].payload.round = Some(3)
                 /\ last[2].payload.reason = Some("stalled_loop")
          /\ ret.kind = "Err"
          /\ ret.error = Some({"Task stalled in repeated progress-only replies"})

\* the call returned after its third Continue, with reasons that differ
C4_Witness ==
    /\ Returned
    /\ obs.continues = 3
    /\ LET IsContinue(e) == e.task_id = task_id /\ e.event_type = "continue"
           continues == SelectSeq(task_events, IsContinue)
       IN  Cardinality({continues[i].payload.reason : i \in 1..Len(continues)}) > 1

\* C5: a round invokes the tool-call loop at most provider_retry_limit + 1
\* times; it retries only after a retryable transport error and at most
\* provider_retry_limit times; a reply ends the round; an error that is not
\* retryable, or a retryable one on the last attempt, is returned without a
\* retry.
C5_RetryBudget ==
    LET limit == cfg.provider_retry_limit
        retryable == err # None /\ is_retryable_provider_transport_error(err[1])
    IN  /\ obs.round_calls <= limit + 1
        /\ pc \in {"increment_provider_retry_count", "append_provider_retry"} =>
               retryable /\ obs.round_calls <= limit
        /\ pc = "provider_error_status" =>
               err # None /\ (~retryable \/ obs.round_calls = limit + 1)
        /\ pc = "increment_attempt_count" => response # None /\ obs.round_calls >= 1

\* in a second round, a retryable error on the last attempt is returned
C5_Witness ==
    /\ pc = "provider_error_status"
    /\ round = 1
    /\ cfg.provider_retry_limit = 1
    /\ obs.round_calls = 2
    /\ is_retryable_provider_transport_error(err[1])

C6_AtReturn ==
    (Returned /\ ret.kind = "Err" /\ ret.error[1] \in ProviderErrors) =>
        /\ Row.status = "Failed"
        /\ LET last == LastEvents(task_id, 1)
           IN  /\ EventTypes(last) = <<"failed">>
               /\ last[1].payload.reason = Some("provider_error")
               /\ last[1].payload.error = ret.error
        /\ ret.error = err
        /\ Row.attempt_count = obs.base_attempts + obs.replies
        /\ obs.continues = obs.replies

C6_ErrorPathStep ==
    pc \in {"provider_error_status", "provider_error_event"} =>
        /\ obs'.loop_calls = obs.loop_calls
        /\ eval' = eval
        /\ task_runs'[task_id].attempt_count = Row.attempt_count

\* C6: when a round ends in an error, run_existing_task sets the task to
\* Failed, appends failed{provider_error}, returns that error, and neither
\* increments attempt_count, nor evaluates, nor runs another round.
C6_RoundErrorFailsTask == []C6_AtReturn /\ [][C6_ErrorPathStep]_vars

\* the retry budget was used up in a second round, and the call returned
\* the transport error
C6_Witness ==
    /\ Returned
    /\ ret.kind = "Err"
    /\ is_retryable_provider_transport_error(ret.error[1])
    /\ obs.replies = 1
    /\ obs.retries = 1

\* C7: when the round loop runs out of its max_continuation_rounds
\* iterations (none, when that is 0), the task is set to Failed,
\* failed{max_continuation_rounds_exhausted} is appended and the call
\* returns "Task exceeded max continuation rounds (N)".
C7_ExhaustionFailsTask ==
    (Returned /\ round = cfg.max_continuation_rounds) =>
        /\ Row.status = "Failed"
        /\ LET last == LastEvents(task_id, 1)
           IN  /\ EventTypes(last) = <<"failed">>
               /\ last[1].payload.reason = Some("max_continuation_rounds_exhausted")
        /\ ret.kind = "Err"
        /\ ret.error =
               Some({"Task exceeded max continuation rounds ("
                         \o ToString(cfg.max_continuation_rounds) \o ")"})

\* two rounds were allowed, both were evaluated Continue
C7_Witness ==
    /\ Returned
    /\ cfg.max_continuation_rounds = 2
    /\ round = 2
    /\ obs.continues = 2
    /\ ret.error = Some({"Task exceeded max continuation rounds (2)"})

\* C8: completed_at is non-null exactly when the status is Completed, Failed
\* or Cancelled, for every task in every reachable state.
C8_CompletedAtIffTerminal ==
    \A id \in DOMAIN task_runs :
        (task_runs[id].completed_at # None)
            <=> (task_runs[id].status \in {"Completed", "Failed", "Cancelled"})

\* a task the engine failed was restarted by update_status(Running), which
\* cleared completed_at
C8_Witness ==
    \E id \in DOMAIN task_runs :
        /\ task_runs[id].status = "Running"
        /\ task_runs[id].completed_at = None
        /\ Len(TerminalEvents(id)) > 0

C10_RunTaskEndsCompletedOrFailed ==
    (Returned /\ op = "run_task") =>
        /\ ret.kind \in {"Ok", "Err"}
        /\ (Row.status = "Completed") <=> (ret.kind = "Ok")
        /\ (Row.status = "Failed") <=> (ret.kind = "Err")
        /\ ret.kind = "Ok" =>
               /\ ret.task_id = task_id
               /\ ret.final_response = response
               /\ eval[1] = evaluate_completion(response[1], history)
               /\ eval[1].decision = Complete
        /\ EventTypes(LastEvents(task_id, 1)) =
               <<IF ret.kind = "Ok" THEN "completed" ELSE "failed">>
        /\ Len(TerminalEvents(task_id)) = 1

\* run_task returned Ok in its second round
C10_Witness ==
    /\ Returned
    /\ op = "run_task"
    /\ ret.kind = "Ok"
    /\ round = 1
    /\ Row.status = "Completed"

\* the rounds a returned call began: those that replied, and the one that
\* ended in an error of the tool-call loop
RoundsBegun ==
    obs.replies + (IF ret.kind = "Err" /\ ret.error[1] \in ProviderErrors THEN 1 ELSE 0)

IsRoundDecision(e, i) ==
    \/ e.event_type \in {"continue", "completed"} /\ e.payload.round = Some(i)
    \/ e.event_type = "failed"

RoundDecisionsAt(events) ==
    /\ Len(events) >= 2 + RoundsBegun
    /\ EventTypes(SubSeq(events, 1, 2)) = <<"accepted", "started">>
    /\ \A i \in 1..RoundsBegun : IsRoundDecision(events[2 + i], i)

DecisionEvents(tid) ==
    LET IsDecision(e) == e.event_type \notin {"provider_retry", "tool_write_verified"}
    IN  SelectSeq(list_events(tid), IsDecision)

\* C11, as stated: when run_task has returned, the task's events are
\* accepted, started, and then at index 2+i, for every round i, continue{round:i},
\* completed{round:i} or a failed event, whatever the retries and the
\* write-verification evidence.
C11_EventIndexIsRound ==
    (Returned /\ op = "run_task" /\ ret.kind \in {"Ok", "Err"}) =>
        RoundDecisionsAt(list_events(task_id))

\* C11, amended: the same of the task's events other than provider_retry and
\* tool_write_verified, which the engine appends between them; the events
\* after the last round's are failed events.
C11_DecisionEventIndexIsRound ==
    (Returned /\ op = "run_task" /\ ret.kind \in {"Ok", "Err"}) =>
        LET events == DecisionEvents(task_id)
        IN  /\ RoundDecisionsAt(events)
            /\ \A i \in 1..Len(events) - 2 : IsRoundDecision(events[2 + i], i)
            /\ \A i \in 1..Len(events) :
                   events[i].event_type \in {"completed", "failed"} => i = Len(events)

\* run_task returned Ok in its second round, after a retry and a verified write
C11_Witness ==
    /\ Returned
    /\ op = "run_task"
    /\ ret.kind = "Ok"
    /\ obs.replies = 2
    /\ \E i \in 1..Len(task_events) : task_events[i].event_type = "provider_retry"
    /\ \E i \in 1..Len(task_events) : task_events[i].event_type = "tool_write_verified"

IsPrefix(s, t) == Len(s) <= Len(t) /\ SubSeq(t, 1, Len(s)) = s

\* a step of SpecStore that is a call of the store
IsStoreCall == obs'.direct # obs.direct

C12_EventsInIdOrder ==
    \A tid \in TaskIds :
        LET events == list_events(tid)
        IN  /\ \A i \in 1..Len(events) : events[i].task_id = tid
            /\ \A i, j \in 1..Len(events) : i < j => events[i].id < events[j].id

C12_AppendOnlyStep ==
    \A tid \in TaskIds :
        /\ IsPrefix(list_events(tid), list_events(tid)')
        /\ IF IsStoreCall /\ op' = "append_event" /\ task_id' = tid /\ ret'.kind = "Ok"
           THEN /\ Len(list_events(tid)') = Len(list_events(tid)) + 1
                /\ list_events(tid)'[Len(list_events(tid)')].event_type = response'[1]
           ELSE list_events(tid)' = list_events(tid)

\* C12: the event log is append-only and ordered: list_events(t) holds the
\* events appended with success for t, in the order of the calls, with
\* strictly increasing ids, and an earlier result is a prefix of a later one,
\* whatever is appended for other tasks in between.
C12_EventLogAppendOnly == []C12_EventsInIdOrder /\ [][C12_AppendOnlyStep]_vars

\* an event was appended for one task after an event for another
C12_Witness ==
    /\ \E i, j \in 1..Len(task_events) :
           i < j /\ task_events[i].task_id > task_events[j].task_id
    /\ op = "append_event"
    /\ ret.kind = "Ok"

\* C13: in every store state, every result of list_recoverable_tasks holds
\* the rows of exactly the Queued, Running and Blocked tasks, each once, in
\* ascending order of created_at.
C13_RecoverableExactlyNonTerminal ==
    /\ list_recoverable_tasks # {}
    /\ \A result \in list_recoverable_tasks :
           LET ids == {id \in DOMAIN task_runs :
                          task_runs[id].status \in {"Queued", "Running", "Blocked"}}
           IN  /\ {result[i].id : i \in 1..Len(result)} = ids
               /\ Len(result) = Cardinality(ids)
               /\ \A i \in 1..Len(result) : result[i] = task_runs[result[i].id]
               /\ \A i, j \in 1..Len(result) :
                      i < j => result[i].created_at <= result[j].created_at

\* two recoverable tasks, the one created first with the greater id
C13_Witness ==
    /\ DOMAIN task_runs = {1, 2}
    /\ task_runs[2].created_at < task_runs[1].created_at
    /\ task_runs[1].status = "Blocked"
    /\ task_runs[2].status = "Queued"
    /\ \A result \in list_recoverable_tasks : Len(result) = 2 /\ result[1].id = 2

C14_OnePerPath ==
    /\ \A i, j \in 1..Len(task_artifacts) :
           i < j =>
               /\ task_artifacts[i].id < task_artifacts[j].id
               /\ <<task_artifacts[i].task_id, task_artifacts[i].path>>
                      # <<task_artifacts[j].task_id, task_artifacts[j].path>>
    /\ \A i \in 1..Len(task_artifacts) :
           (task_artifacts[i].verified_at # None) <=> task_artifacts[i].verified

C14_UpsertStep ==
    \A tid \in TaskIds :
        (/\ IsStoreCall
         /\ op' = "upsert_artifact_verification"
         /\ task_id' = tid
         /\ ret'.kind = "Ok") =>
            LET before == list_artifacts(tid)
                after == list_artifacts(tid)'
                hit == {i \in 1..Len(before) : before[i].path = response'[1]}
                written == IF hit = {} THEN Len(before) + 1 ELSE CHOOSE i \in hit : TRUE
            IN  /\ Len(after) = IF hit = {} THEN Len(before) + 1 ELSE Len(before)
                /\ \A i \in 1..Len(before) : i # written => after[i] = before[i]
                /\ hit # {} => after[written].id = before[written].id
                /\ after[written].path = response'[1]
                /\ after[written].verified = write_verified'
                /\ after[written].checksum = err'
                /\ after[written].verified_at =
                       IF write_verified' THEN Some(clock) ELSE None

\* C14: there is at most one artifact row per (task_id, path); an upsert for
\* an existing (task_id, path) keeps the row's id and place in list_artifacts
\* and overwrites verified, checksum and verified_at, so that verified_at is
\* non-null exactly when the last upsert had verified = true.
C14_ArtifactUpsert == []C14_OnePerPath /\ [][C14_UpsertStep]_vars

\* the last call upserted, with verified = false, the first of a task's two
\* artifacts, which it had verified before
C14_Witness ==
    /\ op = "upsert_artifact_verification"
    /\ ret.kind = "Ok"
    /\ Len(task_artifacts) = 2
    /\ task_artifacts[1].task_id = task_id
    /\ task_artifacts[1].path = response[1]
    /\ ~write_verified
    /\ task_artifacts[1].verified_at = None
    /\ task_artifacts[2].task_id = task_id

C15_CountersStep ==
    \A id \in DOMAIN task_runs :
        /\ id \in DOMAIN task_runs'
        /\ task_runs'[id].attempt_count >= task_runs[id].attempt_count
        /\ task_runs'[id].provider_retry_count >= task_runs[id].provider_retry_count

\* C15: no step of the engine or of the store decreases a task's
\* attempt_count or provider_retry_count; run_existing_task on a Failed task
\* goes on from the stored values.
C15_CountersNeverDecrease == [][C15_CountersStep]_vars

\* a task that failed after one reply and one retry was run again, and its
\* attempt_count went on from 1
C15_Witness ==
    /\ op = "run_existing_task"
    /\ pc # "idle"
    /\ obs.base_attempts = 1
    /\ obs.base_retries = 1
    /\ Row.attempt_count = 2
    /\ Row.provider_retry_count = 1
    /\ Len(TerminalEvents(task_id)) >= 1

\* the transition table, as the claim lists it
TransitionTable ==
    ({"Queued"} \X {"Running", "Cancelled"})
        \cup ({"Running"} \X {"Running", "Blocked", "Completed", "Failed", "Cancelled"})
        \cup ({"Blocked"} \X {"Running", "Failed", "Cancelled"})
        \cup ({"Failed"} \X {"Running", "Failed"})

\* C16: can_transition(from, to) is true for exactly the 12 pairs of the
\* transition table and false for the other 24; nothing leaves Completed or
\* Cancelled and nothing enters Queued.
C16_CanTransitionIsTheTable ==
    pc = "types" =>
        /\ Cardinality((TaskStatus \X TaskStatus) \ TransitionTable) = 24
        /\ \A i \in 1..Len(history) :
               LET call == history[i]
               IN  /\ call.result <=> (<<call.from, call.to>> \in TransitionTable)
                   /\ call.from \in {"Completed", "Cancelled"} => ~call.result
                   /\ call.to = "Queued" => ~call.result

\* the calls of the test: Queued to Running is allowed, Completed to Running
\* is not
C16_Witness ==
    /\ pc = "types"
    /\ Len(history) = 2
    /\ history[1] = [from |-> "Queued", to |-> "Running", result |-> TRUE]
    /\ history[2] = [from |-> "Completed", to |-> "Running", result |-> FALSE]

\* the nudge: a user message with the engine's text
UserNudge ==
    [role |-> "user", content |-> <<TextSeg({"[Task Engine] zh:renwu shang wei wancheng"})>>]

UserNudges(hist) == Cardinality({i \in 1..Len(hist) : hist[i] = UserNudge})

C17_NudgeStep ==
    /\ pc = "append_continue" =>
           IF obs.continues >= 3
           THEN history' = history /\ pc' = "stalled_status"
           ELSE /\ history' = Append(history, UserNudge)
                /\ round' = round + 1
                /\ pc' = IF round + 1 < cfg.max_continuation_rounds
                         THEN "run_tool_call_loop"
                         ELSE "exhausted_status"
    /\ pc \notin {"idle", "returned", "append_continue", "run_tool_call_loop"} =>
           history' = history
    /\ pc = "run_tool_call_loop" =>
           /\ IsPrefix(history, history')
           /\ UserNudges(history') = UserNudges(history)

C17_NudgesCounted ==
    (EngineCall /\ op # "create_task" /\ pc # "idle") =>
        UserNudges(history) =
            IF \/ obs.continues = 3
               \/ pc \in {"upsert_artifact_verification", "append_tool_write_verified",
                          "append_continue"} /\ eval[1].decision.kind = "Continue"
            THEN obs.continues - 1
            ELSE obs.continues

\* C17: after a Continue that does not stall the task the engine pushes
\* exactly one user nudge onto the history and, if rounds remain, runs the
\* next round on that history; nothing but the tool-call loop adds to the
\* history in between, and a Complete pushes no nudge.
C17_NudgeAfterContinue == []C17_NudgesCounted /\ [][C17_NudgeStep]_vars

\* the second round, evaluated Complete, ran on the history with the nudge of
\* the first and added none
C17_Witness ==
    /\ Returned
    /\ ret.kind = "Ok"
    /\ round = 1
    /\ obs.continues = 1
    /\ UserNudges(history) = 1
    /\ history[Len(history)] = UserNudge

\* the four row updates that report a missing row
RowUpdates ==
    {"update_status", "increment_attempt_count", "increment_provider_retry_count",
     "set_last_response"}

C18_MissingRowStep ==
    \A id \in TaskIds :
        (/\ IsStoreCall
         /\ op' \in RowUpdates
         /\ task_id' = id
         /\ id \notin DOMAIN task_runs) =>
            /\ ret'.kind = "Err"
            /\ ret'.error = Some({"Task run '" \o ToString(id) \o "' not found"})
            /\ storeVars' = storeVars

\* C18: update_status, increment_attempt_count, increment_provider_retry_count
\* and set_last_response called with an id that has no row fail with a
\* not-found error naming the id, and leave every table of the store as it was.
C18_MissingRowIsNotFound == [][C18_MissingRowStep]_vars

\* set_last_response on a missing id has failed while another task has a row
C18_Witness ==
    /\ pc = "store"
    /\ op = "set_last_response"
    /\ task_id \notin DOMAIN task_runs
    /\ DOMAIN task_runs # {}
    /\ ret.kind = "Err"
    /\ ret.error = Some({"Task run '" \o ToString(task_id) \o "' not found"})

\* a step of the engine, as opposed to the dispatcher's own store call
IsEngineStep == obs'.direct = obs.direct

C19_CancellationStep ==
    /\ (pc = "run_tool_call_loop" /\ obs'.loop_calls # obs.loop_calls
            /\ err' = Some(CancellationError) /\ response' = response) =>
           /\ pc' = "provider_error_status"
           /\ attempt' = attempt
           /\ storeVars' = storeVars
    /\ (pc = "provider_error_status" /\ err = Some(CancellationError)) =>
           /\ task_runs'[task_id].status = "Failed"
           /\ task_runs'[task_id].provider_retry_count = Row.provider_retry_count
           /\ pc' = "provider_error_event"
    /\ (pc = "provider_error_event" /\ err = Some(CancellationError)) =>
           /\ LastEvents(task_id, 1)'[1].event_type = "failed"
           /\ LastEvents(task_id, 1)'[1].payload.reason = Some("provider_error")
           /\ LastEvents(task_id, 1)'[1].payload.error = Some(CancellationError)
           /\ Len(task_events') = Len(task_events) + 1
           /\ ret'.kind = "Err"
           /\ ret'.error = Some(CancellationError)
           /\ pc' = "returned"

C19_StatusWritesStep ==
    IsEngineStep =>
        \A id \in DOMAIN task_runs :
            /\ id \in DOMAIN task_runs'
            /\ task_runs'[id].status # task_runs[id].status =>
                   task_runs'[id].status \in {"Running", "Completed", "Failed"}

C19_AtReturn ==
    (Returned /\ ret.kind = "Err" /\ ret.error = Some(CancellationError)) =>
        /\ Row.status = "Failed"
        /\ LastEvents(task_id, 1)[1].event_type = "failed"
        /\ LastEvents(task_id, 1)[1].payload.reason = Some("provider_error")
        /\ LastEvents(task_id, 1)[1].payload.error = ret.error

\* C19: a cancellation error from the tool-call loop is not retried, whatever
\* retry budget is left: the task is set to Failed, failed{provider_error}
\* is appended with the error and the call returns that error.  No step of
\* the engine changes a task's status to anything but Running, Completed or
\* Failed.
C19_CancellationFailsTask ==
    []C19_AtReturn /\ [][C19_CancellationStep]_vars /\ [][C19_StatusWritesStep]_vars

\* a cancellation on the first attempt of a second round, with a retry still
\* allowed, was returned
C19_Witness ==
    /\ Returned
    /\ ret.error = Some(CancellationError)
    /\ cfg.provider_retry_limit = 1
    /\ round = 1
    /\ attempt = 0
    /\ obs.round_calls = 1
    /\ Row.status = "Failed"

\* what a call returned, without the task id
ReturnedOutcome ==
    [kind |-> ret.kind, final_response |-> ret.final_response,
     write_verified |-> ret.write_verified, error |-> ret.error]

OutcomeOk(final_response, verified) ==
    [kind |-> "Ok", final_response |-> Some(final_response),
     write_verified |-> verified, error |-> None]

OutcomeErr(error) ==
    [kind |-> "Err", final_response |-> None, write_verified |-> FALSE,
     error |-> Some(error)]

OutcomePending ==
    [kind |-> "none", final_response |-> None, write_verified |-> FALSE, error |-> None]

\* what the rounds return for a sequence of tool-call-loop results, computed
\* from the sequence alone: no table of the store is read
RECURSIVE RoundsOutcome(_, _, _, _, _, _)
RoundsOutcome(hist, rnd, att, verified, progress_only, trace) ==
    IF rnd >= cfg.max_continuation_rounds
    THEN OutcomeErr(ExceededError(cfg.max_continuation_rounds))
    ELSE IF trace = <<>>
    THEN OutcomePending
    ELSE LET result == Head(trace)
             hist2 == hist \o result.pushed
         IN  IF ~result.ok
             THEN IF /\ is_retryable_provider_transport_error(result.text)
                     /\ att < cfg.provider_retry_limit
                  THEN RoundsOutcome(hist2, rnd, att + 1, verified, progress_only,
                                     Tail(trace))
                  ELSE OutcomeErr(result.text)
             ELSE LET evaluation == evaluate_completion(result.text, hist2)
                      verified2 == verified \/ evaluation.saw_post_write_read_after_success
                  IN  IF evaluation.decision.kind = "Complete"
                      THEN OutcomeOk(result.text, verified2)
                      ELSE IF progress_only + 1 >= 3
                      THEN OutcomeErr({"Task stalled in repeated progress-only replies"})
                      ELSE RoundsOutcome(Append(hist2, UserNudge), rnd + 1, 0, verified2,
                                         progress_only + 1, Tail(trace))

\* C20: what run_task and run_existing_task return is a function of the
\* tool-call-loop results alone, whether or not a store write of the call
\* failed; the one store failure that is returned is that of insert_task_run
\* in create_task.
C20_ReturnIgnoresStoreFailures ==
    Returned =>
        IF op \in {"create_task", "run_task"} /\ ~HasRow(task_id)
        THEN /\ ret.kind = "Err"
             /\ ret.error = Some({"Failed to insert task run '" \o ToString(task_id) \o "'"})
             /\ obs.trace = <<>>
        ELSE IF op = "create_task"
        THEN ret = OkTaskId(task_id)
        ELSE \A req \in Requests :
                 ReturnedOutcome =
                     RoundsOutcome(InitialHistory(req), 0, 0, FALSE, 0, obs.trace)

\* run_task returned Ok with a verified write although the update of the
\* status to Completed failed
C20_Witness ==
    /\ Returned
    /\ op = "run_task"
    /\ ret.kind = "Ok"
    /\ ret.write_verified
    /\ store_faults < MaxStoreFaults
    /\ Row.status = "Running"
    /\ EventTypes(LastEvents(task_id, 1)) = <<"completed">>


(***************************************************************************)
(* Claims C21 to C30.                                                      *)
(***************************************************************************)
\* the statements executed with success for one task, of one kind
ExecutedFor(id, call, arg) ==
    SelectSeq(obs.statements,
              LAMBDA s : s.id = id /\ s.call = call /\ (arg = "any" \/ s.arg = arg))

\* C21: with several callers on one store, interleaved in any way, a counter
\* has grown by exactly the number of its bumps that succeeded, and every
\* task row carries the status and the completed_at of one and the same
\* update_status, the last one executed (of the insert before any).
C21_StatementsAreAtomic ==
    callers # <<>> =>
        \A id \in DOMAIN task_runs :
            LET row == task_runs[id]
                updates == ExecutedFor(id, "update_status", "any")
            IN  /\ row.attempt_count =
                       Len(ExecutedFor(id, "bump_counter", "attempt_count"))
                /\ row.provider_retry_count =
                       Len(ExecutedFor(id, "bump_counter", "provider_retry_count"))
                /\ IF updates = <<>>
                   THEN row.status = "Queued" /\ row.completed_at = None
                   ELSE LET last == updates[Len(updates)]
                        IN  /\ row.status = last.arg
                            /\ row.completed_at =
                                   IF last.arg \in {"Completed", "Failed", "Cancelled"}
                                   THEN <<last.now>>
                                   ELSE <<>>

\* two bumps of one counter took effect, the row was later written after a
\* terminal update_status, and some statement was executed after one whose
\* caller had read the clock later
C21_Witness ==
    /\ callers # <<>>
    /\ 1 \in DOMAIN task_runs
    /\ task_runs[1].attempt_count = 2
    /\ task_runs[1].completed_at # None
    /\ task_runs[1].completed_at[1] < task_runs[1].updated_at
    /\ \E i, j \in 1..Len(obs.statements) :
           /\ i < j
           /\ obs.statements[i].now > obs.statements[j].now

\* the first n messages of the transcript
Prefix(hist, n) == SubSeq(hist, 1, n)

\* C22: evidence is monotone: a flag that collect_tool_evidence sets on a
\* transcript is set on every transcript that continues it with further
\* messages, failed writes and failed reads included.
C22_EvidenceIsMonotone ==
    op = "evaluate_completion" =>
        \A n \in 0..Len(history) :
            LET before == collect_tool_evidence(Prefix(history, n))
                after == collect_tool_evidence(history)
            IN  /\ before.saw_successful_write => after.saw_successful_write
                /\ before.saw_post_write_read_after_success =>
                       after.saw_post_write_read_after_success
                /\ eval # None =>
                       /\ eval[1].saw_successful_write = after.saw_successful_write
                       /\ eval[1].saw_post_write_read_after_success =
                              after.saw_post_write_read_after_success

\* a successful write and a successful read are followed by a failed write,
\* and the evaluation still reports both flags
C22_Witness ==
    /\ op = "evaluate_completion"
    /\ Len(history) = 3
    /\ collect_tool_evidence(Prefix(history, 2)).saw_post_write_read_after_success
    /\ history[3] =
           [role |-> "user",
            content |-> <<ResultSeg("file_write", TRUE, {"Action blocked: denied"})>>]
    /\ eval # None
    /\ eval[1].saw_successful_write
    /\ eval[1].saw_post_write_read_after_success

C23_NoOrphans ==
    /\ \A i \in 1..Len(task_events) : task_events[i].task_id \in DOMAIN task_runs
    /\ \A i \in 1..Len(task_artifacts) : task_artifacts[i].task_id \in DOMAIN task_runs

C23_IntegrityStep ==
    \A id \in TaskIds :
        /\ (/\ IsStoreCall
            /\ op' \in {"append_event", "upsert_artifact_verification"}
            /\ task_id' = id
            /\ id \notin DOMAIN task_runs) =>
               /\ ret'.kind = "Err"
               /\ storeVars' = storeVars
        /\ (IsStoreCall /\ op' = "delete_task_run" /\ task_id' = id) =>
               /\ DOMAIN task_runs' = DOMAIN task_runs \ {id}
               /\ list_events(id)' = <<>>
               /\ list_artifacts(id)' = <<>>
               /\ \A other \in TaskIds \ {id} :
                      /\ other \in DOMAIN task_runs => task_runs'[other] = task_runs[other]
                      /\ list_events(other)' = list_events(other)
                      /\ list_artifacts(other)' = list_artifacts(other)

\* C23: every event and every artifact belongs to a task that has a row:
\* append_event and upsert_artifact_verification on an id without a row
\* fail and add nothing, and the deletion of a task row takes the task's
\* events and artifacts with it and nothing of any other task.
C23_ReferentialIntegrity == []C23_NoOrphans /\ [][C23_IntegrityStep]_vars

\* a task with an event and an artifact was deleted, and both went with it
C23_Witness ==
    /\ op = "delete_task_run"
    /\ task_id \notin DOMAIN task_runs
    /\ event_seq = 1
    /\ artifact_seq = 1
    /\ task_events = <<>>
    /\ task_artifacts = <<>>

\* the number of events of a task with one of the given types
EventCount(tid, types) ==
    Len(SelectSeq(list_events(tid), LAMBDA e : e.event_type \in types))

C24_EventsWithinCounters ==
    (EngineCall /\ op # "create_task") =>
        \A tid \in DOMAIN task_runs :
            /\ EventCount(tid, {"provider_retry"}) <= task_runs[tid].provider_retry_count
            /\ EventCount(tid, {"continue", "completed"}) <= task_runs[tid].attempt_count

C24_StatusBeforeEventStep ==
    \A tid \in DOMAIN task_runs :
        /\ EventCount(tid, {"completed"})' > EventCount(tid, {"completed"}) =>
               /\ task_runs[tid].status = "Completed"
               /\ task_runs'[tid].status = "Completed"
        /\ EventCount(tid, {"failed"})' > EventCount(tid, {"failed"}) =>
               /\ task_runs[tid].status = "Failed"
               /\ task_runs'[tid].status = "Failed"
        /\ EventCount(tid, {"provider_retry"})' > EventCount(tid, {"provider_retry"}) =>
               EventCount(tid, {"provider_retry"}) < task_runs[tid].provider_retry_count
        /\ EventCount(tid, {"continue", "completed"})' >
               EventCount(tid, {"continue", "completed"}) =>
               EventCount(tid, {"continue", "completed"}) < task_runs[tid].attempt_count

Identity(row) ==
    <<row.id, row.original_request, row.channel, row.sender_key, row.reply_target,
      row.created_at>>

C25_IdentityStep ==
    \A id \in DOMAIN task_runs :
        /\ id \in DOMAIN task_runs'
        /\ Identity(task_runs'[id]) = Identity(task_runs[id])

\* C25: no operation changes the original_request, channel, sender_key,
\* reply_target or created_at of a task row that exists.
C25_IdentityIsImmutable == [][C25_IdentityStep]_vars

\* a row whose status, counter and last_response were all written after
\* the clock had moved on from its creation
C25_Witness ==
    /\ pc = "store"
    /\ \E id \in DOMAIN task_runs :
           /\ task_runs[id].created_at < task_runs[id].updated_at
           /\ task_runs[id].status # "Queued"
           /\ task_runs[id].last_response # None

\* the event types of a task, oldest first
TaskEventTypes(tid) == EventTypes(list_events(tid))

C26_StartUpOrder ==
    (op = "run_task" /\ HasRow(task_id)) =>
        /\ pc = "append_accepted" =>
               /\ Row.status = "Queued"
               /\ Row.attempt_count = 0
               /\ Row.provider_retry_count = 0
               /\ Row.last_response = <<>>
               /\ Row.completed_at = <<>>
               /\ TaskEventTypes(task_id) = <<>>
               /\ obs.trace = <<>>
        /\ pc = "update_status_running" =>
               /\ Row.status = "Queued"
               /\ TaskEventTypes(task_id) = <<"accepted">>
               /\ obs.trace = <<>>
        /\ pc = "append_started" =>
               /\ Row.status = "Running"
               /\ TaskEventTypes(task_id) = <<"accepted">>
               /\ obs.trace = <<>>
        /\ pc \notin {"append_accepted", "update_status_running", "append_started"} =>
               /\ Len(TaskEventTypes(task_id)) >= 2
               /\ SubSeq(TaskEventTypes(task_id), 1, 2) = <<"accepted", "started">>
        /\ pc = "run_tool_call_loop" => Row.status = "Running"

C26_LoopNeverOnQueuedStep ==
    (op = "run_task" /\ obs'.loop_calls # obs.loop_calls) =>
        /\ Row.status = "Running"
        /\ Len(TaskEventTypes(task_id)) >= 2

\* C26: run_task inserts the row (Queued, counters 0, no last_response, no
\* completed_at), appends `accepted`, sets Running and appends `started`,
\* in this order and before the first tool-call-loop invocation: the task's
\* first two events are accepted and started, and no invocation of the loop
\* by run_task finds the task Queued.
C26_RunTaskStartUp == []C26_StartUpOrder /\ [][C26_LoopNeverOnQueuedStep]_vars

\* run_task is about to invoke the tool-call loop for the first time
C26_Witness ==
    /\ op = "run_task"
    /\ pc = "run_tool_call_loop"
    /\ obs.round_calls = 0
    /\ round = 0
    /\ Row.status = "Running"
    /\ TaskEventTypes(task_id) = <<"accepted", "started">>

\* the artifact row (task, "__history_verified__"), if there is one
HistoryVerifiedArtifacts(tid) ==
    SelectSeq(list_artifacts(tid), LAMBDA a : a.path = "__history_verified__")

Evaluated == pc \in {"completed_status", "completed_event", "append_continue",
                     "stalled_status", "stalled_event"}

C27_VerifiedIffEvidence ==
    (EngineCall /\ pc # "idle") =>
        /\ write_verified =>
               collect_tool_evidence(history).saw_post_write_read_after_success
        /\ (Evaluated /\ eval[1].saw_post_write_read_after_success) => write_verified
        /\ (pc = "returned" /\ ret.kind = "Ok") =>
               /\ ret.write_verified = write_verified
               /\ ret.write_verified = eval[1].saw_post_write_read_after_success
        /\ op = "run_task" =>
               /\ EventCount(task_id, {"tool_write_verified"}) =
                      IF write_verified /\ pc # "append_tool_write_verified" THEN 1 ELSE 0
               /\ Len(HistoryVerifiedArtifacts(task_id)) = IF write_verified THEN 1 ELSE 0

C27_VerificationStep ==
    /\ \A tid \in DOMAIN task_runs :
           EventCount(tid, {"tool_write_verified"})' > EventCount(tid, {"tool_write_verified"}) =>
               /\ tid = task_id
               /\ pc = "append_tool_write_verified"
               /\ eval[1].saw_post_write_read_after_success
               /\ write_verified
               /\ Len(HistoryVerifiedArtifacts(tid)) = 1
               /\ HistoryVerifiedArtifacts(tid)[1].verified
               /\ pc' \in {"completed_status", "append_continue"}
               /\ EventCount(tid, {"continue", "completed"})' =
                      EventCount(tid, {"continue", "completed"})
    /\ pc = "upsert_artifact_verification" =>
           /\ ~write_verified
           /\ write_verified'
           /\ eval[1].saw_post_write_read_after_success
           /\ Len(HistoryVerifiedArtifacts(task_id)') = 1
           /\ HistoryVerifiedArtifacts(task_id)'[1].verified
           /\ HistoryVerifiedArtifacts(task_id)'[1].verified_at # <<>>
           /\ pc' = "append_tool_write_verified"
    /\ (write_verified /\ pc \notin {"idle", "returned"}) => write_verified'

\* C27: in one invocation the verification is recorded once, in the first
\* round whose evaluation reports a read after a successful write: the
\* artifact __history_verified__ is upserted verified, then
\* tool_write_verified is appended, before that round's continue or
\* completed event; later rounds record nothing more; and an Ok return
\* carries write_verified = TRUE exactly when that happened.
C27_WriteVerifiedOnce == []C27_VerifiedIffEvidence /\ [][C27_VerificationStep]_vars

\* the verification was recorded in the second round and a third round ran
\* after it without recording it again
C27_Witness ==
    /\ Returned
    /\ op = "run_task"
    /\ ret.kind = "Ok"
    /\ ret.write_verified
    /\ round = 2
    /\ EventCount(task_id, {"tool_write_verified"}) = 1
    /\ TaskEventTypes(task_id)[4] = "tool_write_verified"
    /\ Len(HistoryVerifiedArtifacts(task_id)) = 1

\* the kinds of the shell calls of one assistant message in the order of
\* their position in the text, whatever tag pair delimits them
ShellKindsInTextOrder(content) ==
    LET IsShellCall(s) ==
            /\ s.kind = "call"
            /\ s.tag \in 1..Len(TAG_PAIRS)
            /\ s.closed
            /\ s.json_ok
            /\ s.name = "shell"
        calls == SelectSeq(content, IsShellCall)
    IN  [i \in 1..Len(calls) |->
            IF calls[i].has_command
            THEN classify_shell_command(calls[i].text)
            ELSE "Other"]

\* the transcript scan with the calls of each message queued in text order
RECURSIVE EvidenceInTextOrderFrom(_, _, _)
EvidenceInTextOrderFrom(hist, n, ev) ==
    IF n > Len(hist) THEN ev
    ELSE LET msg == hist[n]
             next == CASE msg.role = "assistant" ->
                            [ev EXCEPT !.shell_kinds =
                                @ \o ShellKindsInTextOrder(msg.content)]
                       [] msg.role = "user" ->
                            collect_tool_result_evidence(msg.content, ev)
                       [] OTHER -> ev
         IN  EvidenceInTextOrderFrom(hist, n + 1, next)

\* C28: every shell result is classified with the kind of the earliest
\* pending shell call, calls being ordered by message and then by position
\* in the message's text whatever their tag style, and with Other when no
\* call is pending.
C28_ShellResultsMatchCallsInTextOrder ==
    op = "evaluate_completion" =>
        LET found == collect_tool_evidence(history)
            expected == EvidenceInTextOrderFrom(history, 1, NoEvidence)
        IN  found.classified = expected.classified

\* the failure substrings, and the test that a result body contains one
FailureSubstrings ==
    {"failed", "error", "not allowed", "denied", "missing", "refusing"}

Unsuccessful(output) == \E s \in FailureSubstrings : contains(output, s)

\* the names and bodies of the tool results offered to the evaluator
ResultNames == {"file_write", "file_read", "shell", "memory_store"}

ResultBodies ==
    {{"Written 3 bytes to report.md"}, {"abc"},
     {"action blocked: denied"}, {"error: no such file"},
     {"command failed with exit code 1"}, {"path not allowed"},
     {"missing path parameter"}, {"refusing to write through symlink"},
     {"abc", "path not allowed"}}

Flags(ev) == <<ev.saw_successful_write, ev.saw_post_write_read_after_success>>

\* C29: a tool result whose body contains a failure substring sets neither
\* flag, and neither does a result named other than file_write, file_read
\* or shell; so when every WriteLike result of the transcript is
\* unsuccessful both flags are false, whatever read results it contains.
C29_UnsuccessfulResultsAreNoEvidence ==
    LET ev == collect_tool_evidence(history)
        classified == ev.classified
    IN  /\ \A name \in ResultNames, output \in ResultBodies :
               LET after == note_tool_result(ev, name, output)
                   noted == after.classified[Len(after.classified)]
               IN  /\ Unsuccessful(output) =>
                          /\ ~noted.is_success
                          /\ Flags(after) = Flags(ev)
                   /\ name \notin {"file_write", "file_read", "shell"} =>
                          /\ noted.kind = "Other"
                          /\ Flags(after) = Flags(ev)
        /\ (\A i \in 1..Len(classified) :
                classified[i].kind = "WriteLike" => ~classified[i].is_success)
               => Flags(ev) = <<FALSE, FALSE>>

\* a failed write, a successful read and a result of another tool, none
\* of which counted
C29_Witness ==
    /\ pc = "eval_done"
    /\ history =
           <<ChatMessage("user", <<ResultSeg("file_write", TRUE, {"Action blocked: denied"})>>),
             ChatMessage("user", <<ResultSeg("memory_store", TRUE, {"Written 3 bytes to report.md"})>>),
             ChatMessage("user", <<ResultSeg("file_read", TRUE, {"abc"})>>)>>
    /\ eval # None
    /\ ~eval[1].saw_successful_write
    /\ ~eval[1].saw_post_write_read_after_success

\* a run_task or run_existing_task call is in progress
CallInProgress == op \in {"run_task", "run_existing_task"} /\ pc \notin {"idle", "returned"}

\* the rounds and the tool-call-loop invocations of the call in progress
\* stay within the configuration's bounds
C30_WithinBounds ==
    op \in {"run_task", "run_existing_task"} =>
        /\ round <= cfg.max_continuation_rounds
        /\ pc = "run_tool_call_loop" => round < cfg.max_continuation_rounds
        /\ obs.round_calls <= cfg.provider_retry_limit + 1
        /\ Len(obs.trace) <= cfg.max_continuation_rounds * (cfg.provider_retry_limit + 1)

\* the call has returned and left the task Completed or Failed
C30_Finished ==
    /\ pc = "returned"
    /\ ret.kind \in {"Ok", "Err"}
    /\ HasRow(task_id)
    /\ task_runs[task_id].status \in {"Completed", "Failed"}

FailedReasons ==
    {task_events[i].payload.reason :
        i \in {j \in 1..Len(task_events) : task_events[j].event_type = "failed"}}

\* the call in progress ended by exhausting its rounds
Exhausted ==
    /\ Returned
    /\ ret.error = Some(ExceededError(cfg.max_continuation_rounds))
    /\ LastEvents(task_id, 1)[1].payload.reason = Some("max_continuation_rounds_exhausted")

\* C31: the stall limit pre-empts exhaustion.  A call runs at most 3 rounds
\* whatever max_continuation_rounds is; with max_continuation_rounds >= 3 no
\* task fails with reason max_continuation_rounds_exhausted, and a call ends
\* with the task completed, failed{provider_error} or failed{stalled_loop}.
C31_StallPreemptsExhaustion ==
    EngineCall =>
        /\ pc = "run_tool_call_loop" => round < 3
        /\ obs.replies <= 3
        /\ cfg.max_continuation_rounds >= 3 =>
               /\ pc \notin {"exhausted_status", "exhausted_event"}
               /\ Some("max_continuation_rounds_exhausted") \notin FailedReasons
               /\ Returned =>
                      /\ ret.error # Some(ExceededError(cfg.max_continuation_rounds))
                      /\ LET last == LastEvents(task_id, 1)[1]
                         IN  \/ last.event_type = "completed"
                             \/ /\ last.event_type = "failed"
                                /\ last.payload.reason \in
                                       {Some("provider_error"), Some("stalled_loop")}

\* with the default of 4 rounds the call stalled after its third round
C31_Witness ==
    /\ Returned
    /\ cfg.max_continuation_rounds = DefaultMaxContinuationRounds
    /\ round = 2
    /\ obs.replies = 3
    /\ ret.error = Some(StalledError)
    /\ LastEvents(task_id, 1)[1].payload.reason = Some("stalled_loop")

\* exhaustion after two rounds that both asked to continue
C31_ExhaustionReached ==
    /\ Exhausted
    /\ cfg.max_continuation_rounds = 2
    /\ obs.replies = 2

\* the call returned Ok with a reply that reads as a filesystem-write claim
ClaimedWriteAccepted ==
    /\ Returned
    /\ ret.kind = "Ok"
    /\ looks_like_filesystem_write_claim(ret.final_response[1])

C33_HoldsLatestReply ==
    (EngineCall /\ HasRow(task_id) /\ response # None
        /\ pc \notin {"increment_attempt_count", "set_last_response"}) =>
        /\ Row.last_response = response
        /\ (pc = "returned" /\ ret.kind = "Ok") => Row.last_response = ret.final_response

\* last_response is null in a new row and changes only when the engine
\* stores a reply, to that reply; a set_last_response that the database
\* executed leaves the reply in the row
C33_LastResponseStep ==
    \A id \in TaskIds :
        /\ (id \in DOMAIN task_runs' /\ ~HasRow(id)) =>
               task_runs'[id].last_response = None
        /\ (id \in DOMAIN task_runs' /\ HasRow(id)
                /\ task_runs'[id].last_response # task_runs[id].last_response) =>
               /\ pc = "set_last_response"
               /\ id = task_id
               /\ task_runs'[id].last_response = response
        /\ (pc = "set_last_response" /\ pc' # pc /\ id = task_id /\ HasRow(id)
                /\ store_faults' = store_faults) =>
               task_runs'[id].last_response = response

\* C33: last_response holds the most recent assistant reply.  It is null
\* until the first reply; after a round that produced a reply, and whose
\* store write succeeded, it equals that reply; a round that ends in an
\* error leaves it unchanged; and when the call returns Ok it equals the
\* outcome's final_response.
C33_LastResponseIsLatestReply ==
    /\ []C33_HoldsLatestReply
    /\ [][C33_LastResponseStep]_vars

\* a second run of a task returned Ok with a reply that replaced the one
\* its first run stored
C33_Witness ==
    /\ Returned
    /\ op = "run_existing_task"
    /\ ret.kind = "Ok"
    /\ obs.base_attempts = 1
    /\ Row.attempt_count = 2
    /\ Row.last_response = ret.final_response
    /\ Row.last_response = Some({"zh:renwu yi wancheng"})
    /\ \E e \in {list_events(task_id)[i] : i \in 1..Len(list_events(task_id))} :
           /\ e.event_type = "continue"
====
